---- MODULE Spec2Model ----
(***************************************************************************)
(* Co-expression search service: the /api/search route handler (pair       *)
(* source, pagination, the streaming pair-processing closure), the         *)
(* ExpressionDataExtractor it calls, and the /api/tissue-cell-analysis     *)
(* route handler.                                                          *)
(*                                                                         *)
(* Numbers.  The metrics are IEEE doubles in the source.  They are kept    *)
(* here as exact values over integer vectors:                              *)
(*   - a quotient n / sqrt(d) is the record [n, d]; d = 0 is JavaScript's  *)
(*     0/0, that is NaN;                                                   *)
(*   - a square root sqrt(s) is the record [sq |-> s];                     *)
(*   - a ratio is the record [num, den];                                   *)
(*   - (a + b) / 2 of two such values is the record [a, b] (Mean2).        *)
(***************************************************************************)
EXTENDS Integers, Sequences, FiniteSets, TLC

(***************************************************************************)
(* Bounds of the model.                                                    *)
(***************************************************************************)
\* Page size.  The source sets 50 (MAX_PAIRS_PER_REQUEST); the model runs the
\* same code with a small page so that full and partial pages both occur.
MAX_PAIRS_PER_REQUEST == 3

\* Largest page number a request asks for.
MaxPage == 3

(***************************************************************************)
(* Generic helpers.                                                        *)
(***************************************************************************)
Range(s) == {s[k] : k \in 1..Len(s)}

Min(a, b) == IF a <= b THEN a ELSE b

Abs(x) == IF x < 0 THEN -x ELSE x

RECURSIVE Sum(_)
\* Array.prototype.reduce((a, b) => a + b, 0)
Sum(s) == IF Len(s) = 0 THEN 0 ELSE s[1] + Sum(Tail(s))

\* Array.prototype.map over the index range of a sequence.
MapIdx(s, F(_)) == [k \in 1..Len(s) |-> F(k)]

\* Insert x into the ascending sequence t after every element <= x.
InsertAsc(x, t) ==
  LET k == Cardinality({j \in 1..Len(t) : t[j] <= x})
  IN  SubSeq(t, 1, k) \o <<x>> \o SubSeq(t, k + 1, Len(t))

RECURSIVE SortAsc(_)
\* [...vec].sort((a, b) => a - b)
SortAsc(s) ==
  IF Len(s) = 0 THEN <<>>
  ELSE InsertAsc(s[Len(s)], SortAsc(SubSeq(s, 1, Len(s) - 1)))

(***************************************************************************)
(* ExpressionDataExtractor (src/utils/expressionDataExtractor.ts).         *)
(***************************************************************************)
\* The columns requested from the profile service.  The source lists 50 tissue
\* and 79 cell-type columns; the model keeps the first two of each list.
tissueColumns == <<"t_RNA_adipose_tissue", "t_RNA_adrenal_gland">>

cellTypeColumns == <<"sc_RNA_Adipocytes", "sc_RNA_Alveolar_cells_type_1">>

\* get_expression_matrix returns null: no profile.
NoProfile == <<>>

\* computeFeatures returns null.
NoFeatures == [null |-> TRUE]

\* n / sqrt(d); d = 0 is 0/0 = NaN.
Surd(n, d) == [n |-> n, d |-> d]

\* (a + b) / 2
Mean2(a, b) == [a |-> a, b |-> b]

\* Math.round((a + b) / 2) of two non-negative integers: halves round up.
RoundHalf(a, b) == (a + b + 1) \div 2

\* The value of the median element: sorted ascending, index floor(length / 2).
Median(vec) == SortAsc(vec)[(Len(vec) \div 2) + 1]

\* Active from the median on: v >= median.
BinaryFromMedian(vec) == {k \in 1..Len(vec) : vec[k] >= Median(vec)}

\* vec.map(v => v > median ? 1 : 0), as the set of active positions.
Binary(vec) == {k \in 1..Len(vec) : vec[k] > Median(vec)}

\* The position under a sort that puts equal values in descending index order.
DescRankLaterFirst(vec, k) ==
  Cardinality({j \in 1..Len(vec) : vec[j] > vec[k]})
  + Cardinality({j \in 1..Len(vec) : j > k /\ vec[j] = vec[k]}) + 1

\* Position of index k after sorting {value, index} by descending value; the
\* sort is stable, so equal values keep ascending index order.
DescRank(vec, k) ==
  Cardinality({j \in 1..Len(vec) : vec[j] > vec[k]})
  + Cardinality({j \in 1..Len(vec) : j < k /\ vec[j] = vec[k]}) + 1

Top10Count == 10

\* The intersection over the sum of the two sizes, not over the union.
JaccardOverSum(overlap, union) ==
  IF union > 0 THEN [num |-> overlap, den |-> union + overlap]
  ELSE [num |-> 0, den |-> 1]

\* union > 0 ? overlap / union : 0
JaccardRatio(overlap, union) ==
  IF union > 0 THEN [num |-> overlap, den |-> union]
  ELSE [num |-> 0, den |-> 1]

\* .sort((a, b) => b.value - a.value).slice(0, 10).map(item => item.index)
Top10Indices(vec) == {k \in 1..Len(vec) : DescRank(vec, k) <= Top10Count}

computeFeatures(vec1, vec2) ==
  IF Len(vec1) = 0 \/ Len(vec2) = 0 \/ Len(vec1) # Len(vec2) THEN NoFeatures
  ELSE
    LET n     == Len(vec1)
        \* n * (vec[i] - mean): the means are sums over n, so every
        \* difference is scaled by n and the quotient is unchanged.
        diff1 == [k \in 1..n |-> n * vec1[k] - Sum(vec1)]
        diff2 == [k \in 1..n |-> n * vec2[k] - Sum(vec2)]
        num   == Sum([k \in 1..n |-> diff1[k] * diff2[k]])
        den1  == Sum([k \in 1..n |-> diff1[k] * diff1[k]])
        den2  == Sum([k \in 1..n |-> diff2[k] * diff2[k]])
        dotProduct == Sum([k \in 1..n |-> vec1[k] * vec2[k]])
        norm1sq == Sum([k \in 1..n |-> vec1[k] * vec1[k]])
        norm2sq == Sum([k \in 1..n |-> vec2[k] * vec2[k]])
        vec1_binary == Binary(vec1)
        vec2_binary == Binary(vec2)
        overlap_count == Cardinality(vec1_binary \cap vec2_binary)
        union_count   == Cardinality(vec1_binary \cup vec2_binary)
        shared == Cardinality(Top10Indices(vec1) \cap Top10Indices(vec2))
    IN  [ pearson_corr  |-> Surd(num, den1 * den2),
          cosine_sim    |-> Surd(dotProduct, norm1sq * norm2sq),
          jaccard_index |-> JaccardRatio(overlap_count, union_count),
          l2_norm_diff  |-> [sq |-> Sum([k \in 1..n |->
                                (vec1[k] - vec2[k]) * (vec1[k] - vec2[k])])],
          overlap_count |-> overlap_count,
          shared_top10_count |-> shared,
          common_types  |-> n ]

compute_coexpression_features(receptorExpr, ligandExpr) ==
  LET tissueFeatures == computeFeatures(receptorExpr[1], ligandExpr[1])
      cellFeatures   == computeFeatures(receptorExpr[2], ligandExpr[2])
  IN  IF tissueFeatures = NoFeatures \/ cellFeatures = NoFeatures THEN NoFeatures
      ELSE
        [ pearson_corr  |-> Mean2(tissueFeatures.pearson_corr, cellFeatures.pearson_corr),
          cosine_sim    |-> Mean2(tissueFeatures.cosine_sim, cellFeatures.cosine_sim),
          jaccard_index |-> Mean2(tissueFeatures.jaccard_index, cellFeatures.jaccard_index),
          l2_norm_diff  |-> Mean2(tissueFeatures.l2_norm_diff, cellFeatures.l2_norm_diff),
          overlap_count |-> RoundHalf(tissueFeatures.overlap_count, cellFeatures.overlap_count),
          shared_top10_count |-> RoundHalf(tissueFeatures.shared_top10_count,
                                           cellFeatures.shared_top10_count),
          common_types  |-> tissueFeatures.common_types + cellFeatures.common_types ]

(***************************************************************************)
(* Request parameters of GET /api/search.                                  *)
(*                                                                         *)
(* A parameter string is the sequence of its comma-separated items; an     *)
(* item is its text without the surrounding blanks (core) and whether it   *)
(* is padded with blanks.  The empty string is one empty item.  An absent  *)
(* parameter (searchParams.get returns null) is the empty sequence.        *)
(***************************************************************************)
NoParam == <<>>

Item(core, pad) == [core |-> core, pad |-> pad]

EmptyString == <<Item("", FALSE)>>

\* !param : null and "" are falsy, every other string is truthy.
Falsy(param) == param = NoParam \/ param = EmptyString

\* s.split(',').map(x => x.trim()).filter(Boolean)
ParseList(param) ==
  LET trimmed == [k \in 1..Len(param) |-> param[k].core]
  IN  SelectSeq(trimmed, LAMBDA x : x # "")

\* The string itself when it is one item without blanks, "" otherwise (the
\* identifiers of the stored pairs hold neither commas nor blanks).
Plain(param) ==
  IF Len(param) = 1 /\ ~param[1].pad THEN param[1].core ELSE ""

QuerySamples ==
  { NoParam, EmptyString, <<Item("", TRUE)>>,
    <<Item("R1", FALSE)>>, <<Item("L1", FALSE)>>,
    <<Item("R1", FALSE), Item("R2", TRUE), Item("R3", FALSE)>> }

SecondQuerySamples ==
  { NoParam, EmptyString, <<Item("", TRUE)>>,
    <<Item("L1", FALSE)>>,
    <<Item("L1", TRUE), Item("", FALSE), Item("R1", FALSE)>> }

SearchModes == {"", "all", "compare", "tissue-specific"}

QueryTypes == {"receptor", "ligand"}

TissueSamples == {"", "liver", "brain"}

(***************************************************************************)
(* Request parameters of GET /api/tissue-cell-analysis.  gene1, gene2 and  *)
(* analysisMode are strings, "" standing for an absent or empty parameter  *)
(* (both are falsy); selectedItems is the sequence of its comma-separated  *)
(* items, empty when the parameter is absent.                              *)
(***************************************************************************)
GeneSamples == {"", "G1", "g2", "ENSG2", "GX"}

AnalysisModes == {"", "tissue-specific", "cell-specific"}

SelectedItemsSamples ==
  { <<>>, <<"liver">>, <<"lung", "", "liver">>, <<"t_cells">>, <<"", "brain">> }

(***************************************************************************)
(* The pair source: the receptor_ligand_pairs collection.                  *)
(***************************************************************************)
Pair(p1, n1, p2, n2) == [p1_id |-> p1, p1_name |-> n1, p2_id |-> p2, p2_name |-> n2]

pairsCollection ==
  << Pair("R1", "r1", "L1", "l1"),
     Pair("R1", "r1", "L2", "l2"),
     Pair("R2", "r2", "L1", "l1"),
     Pair("R1", "r1", "R2", "r2"),
     Pair("R1", "r1", "L3", "l3") >>

\* Case folding of the identifiers and names the model uses.
Lower(s) ==
  CASE s = "R1" -> "r1" [] s = "R2" -> "r2"
    [] s = "L1" -> "l1" [] s = "L2" -> "l2"
    [] s = "R3" -> "r3" [] s = "L3" -> "l3"
    [] s = "G1" -> "g1" [] s = "G2" -> "g2"
    [] s = "ENSG1" -> "ensg1" [] s = "ENSG2" -> "ensg2"
    [] s = "GX" -> "gx"
    [] OTHER -> s

\* { $regex: new RegExp(query, 'i') } : a case-insensitive search of the
\* pattern in the name.  No identifier of the model is part of another, so
\* the search succeeds exactly on the name itself.
RegexMatches(pattern, name) == pattern # "" /\ Lower(pattern) = Lower(name)

\* geneQuery: { $or: [ {<field>_id: query}, {<field>_name: {$regex}} ] }
GeneQueryMatches(p, q, qType) ==
  IF qType = "receptor"
  THEN p.p1_id = q \/ RegexMatches(q, p.p1_name)
  ELSE p.p2_id = q \/ RegexMatches(q, p.p2_name)

\* pairsCollection.find(geneQuery)
FindPairs(q, qType) ==
  SelectSeq(pairsCollection, LAMBDA p : GeneQueryMatches(p, q, qType))

\* cursor.skip(n).limit(m)
SkipLimit(s, n, m) == SubSeq(s, n + 1, Min(Len(s), n + m))

\* Array.prototype.slice(start, end) for 0 <= start <= end.
Slice(s, start, end) == SubSeq(s, start + 1, Min(Len(s), end))

\* Compare mode: every (receptor, ligand) combination, receptors outermost.
\* The combinations with the ligands as the outer loop.
CombinationsLigandOuter(receptors, ligands) ==
  [k \in 1..(Len(receptors) * Len(ligands)) |->
     LET r == receptors[((k - 1) % Len(receptors)) + 1]
         l == ligands[((k - 1) \div Len(receptors)) + 1]
     IN  Pair(r, r, l, l)]

Combinations(receptors, ligands) ==
  [k \in 1..(Len(receptors) * Len(ligands)) |->
     LET r == receptors[((k - 1) \div Len(ligands)) + 1]
         l == ligands[((k - 1) % Len(ligands)) + 1]
     IN  Pair(r, r, l, l)]

\* The start index taken one page too far.
StartIdxOffByOne(pg) == pg * MAX_PAIRS_PER_REQUEST

\* const startIdx = (page - 1) * MAX_PAIRS_PER_REQUEST
StartIdx(pg) == (pg - 1) * MAX_PAIRS_PER_REQUEST

\* allPairs.slice(startIdx, startIdx + MAX_PAIRS_PER_REQUEST)
PageOf(all, pg) == Slice(all, StartIdx(pg), StartIdx(pg) + MAX_PAIRS_PER_REQUEST)

(***************************************************************************)
(* The profile service answers of one get_expression_matrix call.          *)
(***************************************************************************)
\* `Tissue RNA - ${column.replace('t_RNA_', '').replace(/_/g, ' ')} [nTPM]` and
\* `Single Cell Type RNA - ${column.replace('sc_RNA_', '').replace(/_/g, ' ')} [nTPM]`
ApiColumnName(column) ==
  CASE column = "t_RNA_adipose_tissue" -> "Tissue RNA - adipose tissue [nTPM]"
    [] column = "t_RNA_adrenal_gland" -> "Tissue RNA - adrenal gland [nTPM]"
    [] column = "sc_RNA_Adipocytes" -> "Single Cell Type RNA - Adipocytes [nTPM]"
    [] column = "sc_RNA_Alveolar_cells_type_1"
         -> "Single Cell Type RNA - Alveolar cells type 1 [nTPM]"

\* An answer holds an entry with a value for some of the columns.
ApiReplies ==
  { [kind |-> "httpError"], [kind |-> "noData"],
    [kind |-> "data",
     entry |-> ("Tissue RNA - adipose tissue [nTPM]" :> 2)
            @@ ("Tissue RNA - adrenal gland [nTPM]" :> 4)
            @@ ("Single Cell Type RNA - Adipocytes [nTPM]" :> 1)
            @@ ("Single Cell Type RNA - Alveolar cells type 1 [nTPM]" :> 1)],
    [kind |-> "data",
     entry |-> ("Tissue RNA - adipose tissue [nTPM]" :> 3)
            @@ ("Single Cell Type RNA - Alveolar cells type 1 [nTPM]" :> 2)] }

\* parseFloat(entry[apiColumnName] || '0')
ColumnValue(entry, column) ==
  IF ApiColumnName(column) \in DOMAIN entry THEN entry[ApiColumnName(column)] ELSE 0

\* One value for every column the entry holds, none for the others.
ColumnValuesPresentOnly(entry, columns) ==
  LET present == SelectSeq(columns, LAMBDA c : ApiColumnName(c) \in DOMAIN entry)
  IN  [k \in 1..Len(present) |-> ColumnValue(entry, present[k])]

\* for (const column of columns) data.push(value): one value per column, in
\* the order of the column list.
ColumnValues(entry, columns) ==
  [k \in 1..Len(columns) |-> ColumnValue(entry, columns[k])]

\* get_expression_matrix: null when the request fails or finds nothing,
\* otherwise [tissueData, cellTypeData].
get_expression_matrix(reply) ==
  IF reply.kind = "data"
  THEN <<ColumnValues(reply.entry, tissueColumns),
         ColumnValues(reply.entry, cellTypeColumns)>>
  ELSE NoProfile

(***************************************************************************)
(* State of one request.                                                   *)
(***************************************************************************)
VARIABLES
  route,        \* which route handler serves the request
  query, secondQuery, queryType, searchMode, selectedTissue, page,
  gene1, gene2, analysisMode, selectedItems,
  pc,           \* where the handler is
  response,     \* what the handler returned to the caller
  dbQueries,    \* number of findOne / find calls sent to the pair source
  allPairs,     \* the full candidate list the page is cut from
  pairs,        \* the pairs of the requested page
  i,            \* the loop position in pairs (1-based)
  receptorExpr, ligandExpr,
  results, errors,
  stream,       \* the chunks the writer accepted, in order
  channel,      \* "none", "open", "cancelled" (consumer gone), "closed"
  inFlight,     \* the identifiers with a profile fetch under way
  trace,        \* history: progress writes and fetch starts, in order
  pairState,    \* history: per pair of the page, how far it got
  caught,       \* the error the closure's outer catch received ("" : none)
  unhandled,    \* the closure's promise rejected (nobody awaits it)
  engine,       \* the metrics function that was called ("" : none yet)
  input1, input2,   \* the two vectors it was called on
  output,       \* what it returned
  handler,      \* the grouping route that served the request ("" : none yet)
  collection,   \* the stored expression records, in the store's order
  grouped,      \* the body of the grouping route's response
  revision,     \* which SearchForm of the history is mounted (1, 2 or 3)
  mounted,      \* the form is on the page
  loading, hasMore, currentPage,
  shown,        \* results.length of the form
  eventSources, \* every EventSource the form constructed, in order
  afterUnmount, \* history: a handler of the form ran after the unmount
  file,         \* the lines of the TSV file
  lineCount,    \* lines read so far
  batch,        \* line numbers of the records waiting for the next insert
  totalInserted,
  imported,     \* the collection: line numbers of the stored records
  step,         \* where importExpressionData is
  retry         \* position in batch of the one-by-one fallback

vars ==
  << route, query, secondQuery, queryType, searchMode, selectedTissue, page,
     gene1, gene2, analysisMode, selectedItems,
     pc, response, dbQueries, allPairs, pairs, i, receptorExpr, ligandExpr,
     results, errors, stream, channel, inFlight, trace, pairState, caught,
     unhandled, engine, input1, input2, output, handler, collection, grouped,
     revision, mounted, loading, hasMore, currentPage, shown, eventSources,
     afterUnmount, file, lineCount, batch, totalInserted, imported,
     step, retry >>

engineVars == << engine, input1, input2, output >>

aggregatorVars == << handler, collection, grouped >>

params ==
  << route, query, secondQuery, queryType, searchMode, selectedTissue, page,
     gene1, gene2, analysisMode, selectedItems >>

loopVars == << i, receptorExpr, ligandExpr, results, errors, pairState >>

NoResponse == [kind |-> "none"]

\* No metrics function has been called.
NoEngineCall == engine = "" /\ input1 = <<>> /\ input2 = <<>> /\ output = <<>>

NoHandler == [route |-> "", status |-> 0, shape |-> ""]

\* No grouping route has been requested.
NoGrouping == handler = NoHandler /\ collection = <<>> /\ grouped = <<>>

clientVars ==
  << revision, mounted, loading, hasMore, currentPage, shown, eventSources,
     afterUnmount >>

importVars ==
  << file, lineCount, batch, totalInserted, imported, step, retry >>

\* No search form is on the page.
NoClient ==
  /\ revision = 0 /\ mounted = FALSE /\ loading = FALSE /\ hasMore = TRUE
  /\ currentPage = 1 /\ shown = 0 /\ eventSources = <<>>
  /\ afterUnmount = FALSE

\* The import script does not run.
NoImport ==
  /\ file = <<>> /\ lineCount = 0 /\ batch = <<>> /\ totalInserted = 0
  /\ imported = <<>> /\ step = "" /\ retry = 0

\* A request to /api/search.  The route reads secondQuery in compare and
\* tissue-specific mode only and selectedTissue in tissue-specific mode only;
\* where a parameter is not read it is left out.
SearchRequest ==
  /\ route = "search"
  /\ searchMode \in SearchModes
  /\ query \in QuerySamples
  /\ secondQuery \in SecondQuerySamples
  /\ queryType \in QueryTypes
  /\ selectedTissue \in TissueSamples
  /\ searchMode = "all" => secondQuery \in {NoParam, EmptyString}
  /\ searchMode # "tissue-specific" => selectedTissue = ""
  /\ page \in 1..MaxPage
  /\ gene1 = "" /\ gene2 = "" /\ analysisMode = "" /\ selectedItems = <<>>

\* A request to /api/tissue-cell-analysis.
AnalysisRequest ==
  /\ route = "analysis"
  /\ gene1 \in GeneSamples
  /\ gene2 \in GeneSamples
  /\ analysisMode \in AnalysisModes
  /\ selectedItems \in SelectedItemsSamples
  /\ query = NoParam /\ secondQuery = NoParam /\ queryType = "receptor"
  /\ searchMode = "" /\ selectedTissue = "" /\ page = 1

\* The request variables of a run that serves no search or analysis request.
NoRequest ==
  /\ route = ""
  /\ query = NoParam /\ secondQuery = NoParam /\ queryType = "receptor"
  /\ searchMode = "" /\ selectedTissue = "" /\ page = 1
  /\ analysisMode = "" /\ selectedItems = <<>>
  /\ pc = "idle"
  /\ response = NoResponse
  /\ dbQueries = 0
  /\ allPairs = <<>>
  /\ pairs = <<>>
  /\ i = 1
  /\ receptorExpr = NoProfile
  /\ ligandExpr = NoProfile
  /\ results = <<>>
  /\ errors = <<>>
  /\ stream = <<>>
  /\ channel = "none"
  /\ inFlight = <<>>
  /\ trace = <<>>
  /\ pairState = <<>>
  /\ caught = ""
  /\ unhandled = FALSE

requestVars ==
  << params, pc, response, dbQueries, allPairs, pairs, loopVars, stream,
     channel, inFlight, trace, caught, unhandled >>

Init ==
  /\ SearchRequest \/ AnalysisRequest
  /\ NoClient
  /\ NoImport
  /\ NoEngineCall
  /\ NoGrouping
  /\ pc = "validate"
  /\ response = NoResponse
  /\ dbQueries = 0
  /\ allPairs = <<>>
  /\ pairs = <<>>
  /\ i = 1
  /\ receptorExpr = NoProfile
  /\ ligandExpr = NoProfile
  /\ results = <<>>
  /\ errors = <<>>
  /\ stream = <<>>
  /\ channel = "none"
  /\ inFlight = <<>>
  /\ trace = <<>>
  /\ pairState = <<>>
  /\ caught = ""
  /\ unhandled = FALSE

(***************************************************************************)
(* Responses that end the request before the streaming stage.              *)
(***************************************************************************)
JsonResponse(status, body) == [kind |-> "json", status |-> status, body |-> body]

\* new Response(`data: ${JSON.stringify(data)}\n\n`, text/event-stream)
SSEResponse(body) == [kind |-> "sse", body |-> body]

StreamResponse == [kind |-> "stream"]

MissingParameters ==
  JsonResponse(400, [error |-> "Missing required parameters"])

InternalServerError ==
  JsonResponse(500, [error |-> "Internal server error", details |-> "db"])

\* The validation without the test of secondQuery in compare mode.
SearchParamsMissingNoSecond ==
  \/ Falsy(query)
  \/ searchMode = ""
  \/ (searchMode = "tissue-specific" /\ selectedTissue = "")

\* if (!query || !searchMode || (compare && !secondQuery)
\*     || (tissue-specific && !selectedTissue))
SearchParamsMissing ==
  \/ Falsy(query)
  \/ searchMode = ""
  \/ (searchMode = "compare" /\ Falsy(secondQuery))
  \/ (searchMode = "tissue-specific" /\ selectedTissue = "")

Return(r) ==
  /\ response' = r
  /\ pc' = "done"

Validate ==
  /\ route = "search"
  /\ pc = "validate"
  /\ IF SearchParamsMissing THEN Return(MissingParameters)
     ELSE /\ pc' = IF searchMode = "tissue-specific" THEN "tissueSearch" ELSE "connect"
          /\ UNCHANGED response
  /\ UNCHANGED << params, engineVars, aggregatorVars, clientVars, importVars, dbQueries, allPairs, pairs, loopVars, stream, channel,
                  inFlight, trace, caught, unhandled >>

\* const client = await clientPromise : the connection is there, or the
\* promise rejects and the outer catch answers 500.
Connect ==
  /\ pc = "connect"
  /\ \E ok \in BOOLEAN :
       IF ok THEN pc' = "pairs" /\ UNCHANGED response
       ELSE Return(InternalServerError)
  /\ UNCHANGED << params, engineVars, aggregatorVars, clientVars, importVars, dbQueries, allPairs, pairs, loopVars, stream, channel,
                  inFlight, trace, caught, unhandled >>

\* The streaming stage begins: the closure starts on the page and the handler
\* returns the readable side of the stream.
StartStreaming(all, pg) ==
  /\ allPairs' = all
  /\ pairs' = pg
  /\ pairState' = [k \in 1..Len(pg) |-> "Pending"]
  /\ response' = StreamResponse
  /\ channel' = "open"
  /\ pc' = "notify1"

NoStreaming(all, pg, r) ==
  /\ allPairs' = all
  /\ pairs' = pg
  /\ Return(r)
  /\ UNCHANGED << pairState, channel >>

NoMoreResults ==
  JsonResponse(200, [results |-> <<>>, hasMore |-> FALSE, message |-> "No more results"])

\* Compare mode: the candidates are synthesized from the two lists.
SynthesizePairs ==
  /\ pc = "pairs"
  /\ searchMode = "compare"
  /\ LET all == Combinations(ParseList(query), ParseList(secondQuery))
         pg  == PageOf(all, page)
     IN  IF Len(all) = 0
         THEN NoStreaming(all, <<>>, SSEResponse(
                [error |-> "No valid gene pairs to analyze",
                 details |-> "Please enter at least one receptor and one ligand."]))
         ELSE IF Len(pg) = 0
         THEN NoStreaming(all, pg, SSEResponse(
                [error |-> "No more pairs to analyze",
                 details |-> "All specified gene pairs have been processed."]))
         ELSE StartStreaming(all, pg)
  /\ UNCHANGED << params, engineVars, aggregatorVars, clientVars, importVars, dbQueries, i, receptorExpr, ligandExpr, results, errors,
                  stream, inFlight, trace, caught, unhandled >>

\* Search-all mode: findOne(geneQuery), then find(geneQuery).skip().limit().
QueryPairs ==
  /\ pc = "pairs"
  /\ searchMode # "compare"
  /\ LET q   == Plain(query)
         all == FindPairs(q, queryType)
         pg  == SkipLimit(all, StartIdx(page), MAX_PAIRS_PER_REQUEST)
     IN  IF Len(all) = 0
         THEN /\ dbQueries' = dbQueries + 1
              /\ NoStreaming(all, <<>>, SSEResponse(
                   [error |-> <<"No found with gene name or UniProt ID", queryType, query>>,
                    details |-> <<"was not found in our database", queryType, query>>]))
         ELSE /\ dbQueries' = dbQueries + 2
              /\ IF Len(pg) = 0 /\ page = 1
                 THEN NoStreaming(all, pg, SSEResponse(
                        [error |-> <<"No pairs found for", queryType, query>>,
                         details |-> <<"No interaction pairs were found for", queryType, query>>]))
                 ELSE IF Len(pg) = 0
                 THEN NoStreaming(all, pg, NoMoreResults)
                 ELSE StartStreaming(all, pg)
  /\ UNCHANGED << params, engineVars, aggregatorVars, clientVars, importVars, i, receptorExpr, ligandExpr, results, errors,
                  stream, inFlight, trace, caught, unhandled >>

(***************************************************************************)
(* The streaming closure: the loop over the pairs of the page.             *)
(***************************************************************************)
\* const receptorId = queryType === 'receptor' ? pair.p1_id : pair.p2_id
ReceptorId(pair) == IF queryType = "receptor" THEN pair.p1_id ELSE pair.p2_id

\* The second identifier taken from p2 whatever the query type.
LigandIdAlwaysP2(pair) == pair.p2_id

\* const ligandId = queryType === 'receptor' ? pair.p2_id : pair.p1_id
LigandId(pair) == IF queryType = "receptor" THEN pair.p2_id ELSE pair.p1_id

\* { currentGene: id }
ProgressMsg(id) == [currentGene |-> id]

\* `Could not fetch expression data for <role> <id>`, with the request to
\* verify the identifier in compare mode.
FetchErrorMsg(role, id) ==
  [ text |-> "Could not fetch expression data for", role |-> role, id |-> id,
    verify |-> (searchMode = "compare") ]

\* `Error processing pair <p1_id>-<p2_id>: <message>`, the pair in quotes in
\* compare mode.
PairErrorMsg(pair, message) ==
  [ text |-> "Error processing pair", p1_id |-> pair.p1_id, p2_id |-> pair.p2_id,
    message |-> message, quoted |-> (searchMode = "compare") ]

\* writer.write(chunk) fulfils while the readable side has a consumer and
\* rejects once the consumer cancelled it.
WriterAccepts == channel = "open"

\* for (const pair of pairs) : on to the next pair, or out of the loop.
NextIteration ==
  /\ i' = i + 1
  /\ receptorExpr' = NoProfile
  /\ ligandExpr' = NoProfile
  /\ pc' = IF i + 1 <= Len(pairs) THEN "notify1" ELSE "sort"

\* break; instead of continue: the loop is left at the first failure.
BreakLoop ==
  /\ pc' = "sort"
  /\ receptorExpr' = NoProfile
  /\ ligandExpr' = NoProfile
  /\ UNCHANGED i

\* continue;
Continue == NextIteration

\* errors.push(msg); continue;
FailPair(msg) ==
  /\ errors' = Append(errors, msg)
  /\ pairState' = [pairState EXCEPT ![i] = "Failed"]
  /\ Continue
  /\ UNCHANGED results

\* catch (error) of the loop body: a rejected write lands here.
PairThrew(message) == FailPair(PairErrorMsg(pairs[i], message))

\* await writer.write({ currentGene: receptorId })
NotifyReceptor ==
  /\ pc = "notify1"
  /\ LET id == ReceptorId(pairs[i])
     IN  IF WriterAccepts
         THEN /\ stream' = Append(stream, ProgressMsg(id))
              /\ trace' = Append(trace, [ev |-> "progress", id |-> id])
              /\ pairState' = [pairState EXCEPT ![i] = "FetchingP1"]
              /\ pc' = "fetch1"
              /\ UNCHANGED << i, receptorExpr, ligandExpr, results, errors >>
         ELSE /\ PairThrew("write rejected")
              /\ UNCHANGED << stream, trace >>
  /\ UNCHANGED << params, engineVars, aggregatorVars, clientVars, importVars, response, dbQueries, allPairs, pairs, channel, inFlight,
                  caught, unhandled >>

\* dataExtractor.get_expression_matrix(receptorId) is called: the request to
\* the profile service leaves.
FetchReceptor ==
  /\ pc = "fetch1"
  /\ LET id == ReceptorId(pairs[i])
     IN  /\ inFlight' = Append(inFlight, id)
         /\ trace' = Append(trace, [ev |-> "fetch", id |-> id, pair |-> i, ord |-> 1])
  /\ pc' = "await1"
  /\ UNCHANGED << params, engineVars, aggregatorVars, clientVars, importVars, response, dbQueries, allPairs, pairs, loopVars, stream,
                  channel, caught, unhandled >>

\* The call resolves; if (!receptorExpr) { errors.push(...); continue; }
ReceptorReturns ==
  /\ pc = "await1"
  /\ \E reply \in ApiReplies :
       LET expr == get_expression_matrix(reply)
       IN  IF expr = NoProfile
           THEN FailPair(FetchErrorMsg("receptor", ReceptorId(pairs[i])))
           ELSE /\ receptorExpr' = expr
                /\ pc' = "notify2"
                /\ UNCHANGED << i, ligandExpr, results, errors, pairState >>
  /\ inFlight' = <<>>
  /\ UNCHANGED << params, engineVars, aggregatorVars, clientVars, importVars, response, dbQueries, allPairs, pairs, stream, channel,
                  trace, caught, unhandled >>

\* await writer.write({ currentGene: ligandId })
NotifyLigand ==
  /\ pc = "notify2"
  /\ LET id == LigandId(pairs[i])
     IN  IF WriterAccepts
         THEN /\ stream' = Append(stream, ProgressMsg(id))
              /\ trace' = Append(trace, [ev |-> "progress", id |-> id])
              /\ pairState' = [pairState EXCEPT ![i] = "FetchingP2"]
              /\ pc' = "fetch2"
              /\ UNCHANGED << i, receptorExpr, ligandExpr, results, errors >>
         ELSE /\ PairThrew("write rejected")
              /\ UNCHANGED << stream, trace >>
  /\ UNCHANGED << params, engineVars, aggregatorVars, clientVars, importVars, response, dbQueries, allPairs, pairs, channel, inFlight,
                  caught, unhandled >>

FetchLigand ==
  /\ pc = "fetch2"
  /\ LET id == LigandId(pairs[i])
     IN  /\ inFlight' = Append(inFlight, id)
         /\ trace' = Append(trace, [ev |-> "fetch", id |-> id, pair |-> i, ord |-> 2])
  /\ pc' = "await2"
  /\ UNCHANGED << params, engineVars, aggregatorVars, clientVars, importVars, response, dbQueries, allPairs, pairs, loopVars, stream,
                  channel, caught, unhandled >>

\* The call resolves; if (!ligandExpr) { errors.push(...); continue; }
LigandReturns ==
  /\ pc = "await2"
  /\ \E reply \in ApiReplies :
       LET expr == get_expression_matrix(reply)
       IN  IF expr = NoProfile
           THEN FailPair(FetchErrorMsg("ligand", LigandId(pairs[i])))
           ELSE /\ ligandExpr' = expr
                /\ pairState' = [pairState EXCEPT ![i] = "Combining"]
                /\ pc' = "combine"
                /\ UNCHANGED << i, receptorExpr, results, errors >>
  /\ inFlight' = <<>>
  /\ UNCHANGED << params, engineVars, aggregatorVars, clientVars, importVars, response, dbQueries, allPairs, pairs, stream, channel,
                  trace, caught, unhandled >>

\* results.push({ pair, features, expression: { receptor, ligand } })
SearchResult(pair) ==
  [ pair |-> pair,
    features |-> compute_coexpression_features(receptorExpr, ligandExpr),
    expression |->
      [ receptor |-> IF queryType = "receptor" THEN receptorExpr ELSE ligandExpr,
        ligand   |-> IF queryType = "receptor" THEN ligandExpr ELSE receptorExpr ] ]

Combine ==
  /\ pc = "combine"
  /\ results' = Append(results, SearchResult(pairs[i]))
  /\ pairState' = [pairState EXCEPT ![i] = "Succeeded"]
  /\ NextIteration
  /\ UNCHANGED << params, engineVars, aggregatorVars, clientVars, importVars, response, dbQueries, allPairs, pairs, errors, stream,
                  channel, inFlight, trace, caught, unhandled >>

(***************************************************************************)
(* After the loop: the sort, the terminal message, the outer catch and the *)
(* finally block.                                                          *)
(***************************************************************************)
\* A features object the comparator can read: b.features.combined.pearson_corr
\* throws a TypeError when features is null or has no `combined`.
HasCombined(features) ==
  features # NoFeatures /\ "combined" \in DOMAIN features

\* x > y for two quotients n / sqrt(d); false when either is NaN.
SurdGreater(x, y) ==
  /\ x.d # 0
  /\ y.d # 0
  /\ x.n * Abs(x.n) * y.d > y.n * Abs(y.n) * x.d

\* The comparator runs as soon as the array holds two elements.
SortThrows(rs) ==
  Len(rs) >= 2 /\ \E k \in 1..Len(rs) : ~HasCombined(rs[k].features)

\* results.sort((a, b) => b.features.combined.pearson_corr
\*                        - a.features.combined.pearson_corr)
\* Array.prototype.sort is stable: descending keys, ties in array order.
SortByCombinedPearson(rs) ==
  IF Len(rs) < 2 THEN rs
  ELSE
    LET key(k) == rs[k].features.combined.pearson_corr
        rank(k) ==
          Cardinality({j \in 1..Len(rs) : SurdGreater(key(j), key(k))})
          + Cardinality({j \in 1..(k - 1) : ~SurdGreater(key(k), key(j))
                                            /\ ~SurdGreater(key(j), key(k))}) + 1
    IN  [r \in 1..Len(rs) |-> rs[CHOOSE k \in 1..Len(rs) : rank(k) = r]]

Sort ==
  /\ pc = "sort"
  /\ IF SortThrows(results)
     THEN /\ caught' = "TypeError"
          /\ pc' = "catch"
          /\ UNCHANGED results
     ELSE /\ results' = SortByCombinedPearson(results)
          /\ pc' = "send"
          /\ UNCHANGED caught
  /\ UNCHANGED << params, engineVars, aggregatorVars, clientVars, importVars, response, dbQueries, allPairs, pairs, i, receptorExpr,
                  ligandExpr, errors, stream, channel, inFlight, trace, pairState,
                  unhandled >>

\* The zero-success test without the restriction to compare mode.
ZeroSuccessAnyMode == Len(results) = 0 /\ Len(errors) > 0

\* if (searchMode === 'compare' && results.length === 0 && errors.length > 0)
ZeroSuccessCondition ==
  searchMode = "compare" /\ Len(results) = 0 /\ Len(errors) > 0

ZeroSuccessMsg ==
  [ error   |-> "No valid expression data found for any gene pairs",
    details |-> "None of the specified gene pairs could be analyzed.",
    errors  |-> errors ]

\* { results, hasMore, currentPage, errors: errors.length > 0 ? errors : undefined }
\* JSON.stringify leaves an undefined member out.
ResultsMsg ==
  LET base == [ results |-> results,
                hasMore |-> (Len(pairs) = MAX_PAIRS_PER_REQUEST),
                currentPage |-> page ]
  IN  IF Len(errors) > 0
      THEN [ results |-> base.results, hasMore |-> base.hasMore,
             currentPage |-> base.currentPage, errors |-> errors ]
      ELSE base

\* { error: 'Error processing results', details: error.message }
FatalMsg(details) == [error |-> "Error processing results", details |-> details]

TerminalMsg == IF ZeroSuccessCondition THEN ZeroSuccessMsg ELSE ResultsMsg

\* The terminal write of the try block; a rejected write goes to the catch.
Send ==
  /\ pc = "send"
  /\ IF WriterAccepts
     THEN /\ stream' = Append(stream, TerminalMsg)
          /\ pc' = "finally"
          /\ UNCHANGED caught
     ELSE /\ caught' = "write rejected"
          /\ pc' = "catch"
          /\ UNCHANGED stream
  /\ UNCHANGED << params, engineVars, aggregatorVars, clientVars, importVars, response, dbQueries, allPairs, pairs, loopVars, channel,
                  inFlight, trace, unhandled >>

\* catch (error) { console.error('Processing error:', error) } : the outer
\* catch of the earlier closure (src/app/api/cell-types/route.ts, lines
\* 178-179), which writes nothing.
OuterCatchLogsOnly ==
  /\ pc' = "finally"
  /\ UNCHANGED << stream, unhandled >>

\* catch (error) { await writer.write({ error, details }) } : a rejection of
\* this write leaves the closure after the finally block.
OuterCatch ==
  /\ IF WriterAccepts
     THEN stream' = Append(stream, FatalMsg(caught)) /\ UNCHANGED unhandled
     ELSE unhandled' = TRUE /\ UNCHANGED stream
  /\ pc' = "finally"

Catch ==
  /\ pc = "catch"
  /\ OuterCatch
  /\ UNCHANGED << params, engineVars, aggregatorVars, clientVars, importVars, response, dbQueries, allPairs, pairs, loopVars, channel,
                  inFlight, trace, caught >>

\* finally { await writer.close() }
Finally ==
  /\ pc = "finally"
  /\ IF channel = "open"
     THEN channel' = "closed" /\ UNCHANGED unhandled
     ELSE unhandled' = TRUE /\ UNCHANGED channel
  /\ pc' = "done"
  /\ UNCHANGED << params, engineVars, aggregatorVars, clientVars, importVars, response, dbQueries, allPairs, pairs, loopVars, stream,
                  inFlight, trace, caught >>

\* The points where the closure is suspended on a promise.
AwaitPoints == {"notify1", "await1", "notify2", "await2", "send", "catch", "finally"}

\* The consumer goes away: the readable side is cancelled, which puts the
\* writable side of the TransformStream in the errored state.
Detach ==
  /\ channel = "open"
  /\ pc \in AwaitPoints
  /\ channel' = "cancelled"
  /\ UNCHANGED << params, engineVars, aggregatorVars, clientVars, importVars, pc, response, dbQueries, allPairs, pairs, loopVars, stream,
                  inFlight, trace, caught, unhandled >>

(***************************************************************************)
(* handleTissueSpecificSearch: the precomputed per-tissue feature table.   *)
(***************************************************************************)
\* One data line of tissue_specific_coexpression_features.csv; the metric
\* columns of each tissue hold decimal numbers, kept here in hundredths.
CsvRow(n1, u1, n2, u2, id, pearson) ==
  [ p1_name |-> n1, p1_uniprot |-> u1, p1_ensembl |-> "",
    p2_name |-> n2, p2_uniprot |-> u2, p2_ensembl |-> "", pair_id |-> id,
    liver |-> [ pearson_corr |-> pearson, cosine_sim |-> 0, jaccard_index |-> 0,
                l2_norm_diff |-> 0, overlap_count |-> 0 ] ]

\* The tissues the header line has columns for.
CsvTissues == {"liver"}

CsvRows ==
  << CsvRow("r1", "R1", "l1", "L1", "R1_L1", 50),
     CsvRow("r1", "R1", "l2", "L2", "R1_L2", 90),
     CsvRow("r2", "R2", "l1", "L1", "R2_L1", 50) >>

\* genes.some(g => p1Name.toLowerCase().includes(g.toLowerCase()) || ...)
\* No identifier of the model is part of another: includes is equality here.
RowMatches(row, genes) ==
  \E k \in 1..Len(genes) :
    Lower(genes[k]) \in { Lower(row.p1_name), Lower(row.p1_uniprot),
                          Lower(row.p2_name), Lower(row.p2_uniprot) }

TissueSpecificResult(row, tissue) ==
  [ p1_name |-> row.p1_name, p1_uniprot |-> row.p1_uniprot, p1_ensembl |-> row.p1_ensembl,
    p2_name |-> row.p2_name, p2_uniprot |-> row.p2_uniprot, p2_ensembl |-> row.p2_ensembl,
    pair_id |-> row.pair_id,
    tissue_features |-> [tissue |-> tissue, features |-> row[tissue]] ]

\* results.sort((a, b) => b.pearson_corr - a.pearson_corr) : stable.
SortByTissuePearson(rs) ==
  LET key(k) == rs[k].tissue_features.features.pearson_corr
      rank(k) ==
        Cardinality({j \in 1..Len(rs) : key(j) > key(k)})
        + Cardinality({j \in 1..(k - 1) : key(j) = key(k)}) + 1
  IN  [r \in 1..Len(rs) |-> rs[CHOOSE k \in 1..Len(rs) : rank(k) = r]]

TissueSearchPayload ==
  LET genes1 == ParseList(query)
      genes2 == IF Falsy(secondQuery) THEN <<>> ELSE ParseList(secondQuery)
      hits   == SelectSeq(CsvRows, LAMBDA row :
                   RowMatches(row, genes1)
                   /\ (Len(genes2) = 0 \/ RowMatches(row, genes2)))
      found  == SortByTissuePearson(
                   [k \in 1..Len(hits) |-> TissueSpecificResult(hits[k], selectedTissue)])
  IN  [ tissueResults |-> Slice(found, StartIdx(page), StartIdx(page) + MAX_PAIRS_PER_REQUEST),
        hasMore |-> (Len(found) > StartIdx(page) + MAX_PAIRS_PER_REQUEST),
        currentPage |-> page ]

\* fs.readFileSync(csvPath) either reads the table or throws.
TissueSearch ==
  /\ pc = "tissueSearch"
  /\ \E readable \in BOOLEAN :
       IF ~readable
       THEN Return(SSEResponse([ error |-> "Error processing tissue-specific search",
                                 details |-> "ENOENT" ]))
       ELSE IF selectedTissue \notin CsvTissues
       THEN Return(SSEResponse([error |-> <<"Tissue not found in data", selectedTissue>>]))
       ELSE Return(SSEResponse(TissueSearchPayload))
  /\ UNCHANGED << params, engineVars, aggregatorVars, clientVars, importVars, dbQueries, allPairs, pairs, loopVars, stream, channel,
                  inFlight, trace, caught, unhandled >>

(***************************************************************************)
(* GET /api/tissue-cell-analysis.                                          *)
(***************************************************************************)
ExpressionRecord(gene, gene_name, tissue, cell_type_full, nTPM) ==
  [ gene |-> gene, gene_name |-> gene_name, tissue |-> tissue,
    cell_type_full |-> cell_type_full, nTPM |-> nTPM ]

\* The expression_data collection.
expression_data ==
  << ExpressionRecord("ENSG1", "G1", "liver", "hepatocytes", 4),
     ExpressionRecord("ENSG1", "G1", "liver", "t_cells", 2),
     ExpressionRecord("ENSG1", "G1", "lung", "t_cells", 0),
     ExpressionRecord("ENSG1", "G1", "lung", "alveolar", 3),
     ExpressionRecord("ENSG2", "G2", "liver", "hepatocytes", 1),
     ExpressionRecord("ENSG2", "G2", "liver", "t_cells", 3),
     ExpressionRecord("ENSG2", "G2", "lung", "t_cells", 5) >>

\* { $regex: new RegExp(`^${gene}$`, 'i') }
RegexFullMatch(gene, field) == Lower(gene) = Lower(field)

\* collection.find({ $or: [...] }).toArray()
loadExpressionDataForGenes(g1, g2) ==
  SelectSeq(expression_data, LAMBDA row :
    \/ row.gene_name \in {g1, g2}
    \/ row.gene \in {g1, g2}
    \/ RegexFullMatch(g1, row.gene_name)
    \/ RegexFullMatch(g2, row.gene_name)
    \/ RegexFullMatch(g1, row.gene)
    \/ RegexFullMatch(g2, row.gene))

\* expressionData.filter(row => row.gene_name.toLowerCase() === gene.toLowerCase()
\*                           || row.gene.toLowerCase() === gene.toLowerCase())
GeneData(expressionData, gene) ==
  SelectSeq(expressionData, LAMBDA row :
    Lower(row.gene_name) = Lower(gene) \/ Lower(row.gene) = Lower(gene))

RECURSIVE Unique(_)
\* [...new Set(values)] : the distinct values in order of first occurrence.
Unique(values) ==
  IF Len(values) = 0 THEN <<>>
  ELSE LET front == Unique(SubSeq(values, 1, Len(values) - 1))
           last  == values[Len(values)]
       IN  IF last \in Range(front) THEN front ELSE Append(front, last)

\* rows.map(row => row[field])
Column(rows, field) == [k \in 1..Len(rows) |-> rows[k][field]]

\* rows.filter(row => row[field] === value)
RowsWith(rows, field, value) == SelectSeq(rows, LAMBDA row : row[field] = value)

Zero == Surd(0, 1)

\* isNaN(x) ? 0 : x
NaNToZero(x) == IF x.d = 0 THEN Zero ELSE x

\* The record of the zero-vector check with the distance left at 0.
ZeroVectorMetricsNoDistance(vec1, vec2) ==
  [ pearson_corr |-> Zero, cosine_sim |-> Zero,
    jaccard_index |-> [num |-> 0, den |-> 1],
    l2_norm_diff |-> [sq |-> 0], overlap_count |-> 0 ]

\* if (sum1 === 0 || sum2 === 0) return {...}: every metric 0 but the
\* distance, which is computed.
ZeroVectorMetrics(vec1, vec2) ==
  [ pearson_corr |-> Zero, cosine_sim |-> Zero,
    jaccard_index |-> [num |-> 0, den |-> 1],
    l2_norm_diff |-> [sq |-> Sum([k \in 1..Len(vec1) |->
                           (vec1[k] - vec2[k]) * (vec1[k] - vec2[k])])],
    overlap_count |-> 0 ]

\* The computation from the means on, for vectors of one length.
GeneralMetrics(vec1, vec2) ==
  LET n    == Len(vec1)
      sum1 == Sum(vec1)
      sum2 == Sum(vec2)
      l2sq == Sum([k \in 1..n |-> (vec1[k] - vec2[k]) * (vec1[k] - vec2[k])])
      \* n * (vec[i] - mean), as in computeFeatures
      diff1 == [k \in 1..n |-> n * vec1[k] - sum1]
      diff2 == [k \in 1..n |-> n * vec2[k] - sum2]
      numerator == Sum([k \in 1..n |-> diff1[k] * diff2[k]])
      sum1Sq == Sum([k \in 1..n |-> diff1[k] * diff1[k]])
      sum2Sq == Sum([k \in 1..n |-> diff2[k] * diff2[k]])
      dot_product == Sum([k \in 1..n |-> vec1[k] * vec2[k]])
      norm1sq == Sum([k \in 1..n |-> vec1[k] * vec1[k]])
      norm2sq == Sum([k \in 1..n |-> vec2[k] * vec2[k]])
      binary1 == Binary(vec1)
      binary2 == Binary(vec2)
      intersection == Cardinality(binary1 \cap binary2)
      union == Cardinality(binary1 \cup binary2)
  IN  [ pearson_corr  |-> NaNToZero(IF sum1Sq = 0 \/ sum2Sq = 0 THEN Zero
                                    ELSE Surd(numerator, sum1Sq * sum2Sq)),
        cosine_sim    |-> NaNToZero(IF norm1sq = 0 \/ norm2sq = 0 THEN Zero
                                    ELSE Surd(dot_product, norm1sq * norm2sq)),
        jaccard_index |-> JaccardRatio(intersection, union),
        l2_norm_diff  |-> [sq |-> l2sq],
        overlap_count |-> intersection ]

computeCorrelationMetrics(vec1, vec2) ==
  IF Len(vec1) # Len(vec2) \/ Len(vec1) = 0
  THEN [ pearson_corr |-> Zero, cosine_sim |-> Zero,
         jaccard_index |-> [num |-> 0, den |-> 1],
         l2_norm_diff |-> [sq |-> 0], overlap_count |-> 0 ]
  ELSE IF Sum(vec1) = 0 \/ Sum(vec2) = 0 THEN ZeroVectorMetrics(vec1, vec2)
  ELSE GeneralMetrics(vec1, vec2)

\* The two vectors of one group: for every member of gene 1's rows, in order
\* of first occurrence, the nTPM of the first row of either gene, kept when
\* both genes have a row for that member.
SharedMembers(gene1Rows, gene2Rows, memberField) ==
  LET members == Unique(Column(gene1Rows, memberField))
  IN  SelectSeq(members, LAMBDA m : RowsWith(gene2Rows, memberField, m) # <<>>)

GroupVectors(gene1Rows, gene2Rows, memberField) ==
  LET shared == SharedMembers(gene1Rows, gene2Rows, memberField)
  IN  [ vec1 |-> [k \in 1..Len(shared) |-> RowsWith(gene1Rows, memberField, shared[k])[1].nTPM],
        vec2 |-> [k \in 1..Len(shared) |-> RowsWith(gene2Rows, memberField, shared[k])[1].nTPM] ]

\* The for loop over the groups (tissues, or cell types) of one analysis:
\* a group is skipped when a gene has no row in it or fewer than 2 members
\* are shared.
GroupCorrelations(gene1Data, gene2Data, groups, groupField, memberField) ==
  LET rows1(g) == RowsWith(gene1Data, groupField, g)
      rows2(g) == RowsWith(gene2Data, groupField, g)
      kept == SelectSeq(groups, LAMBDA g :
                /\ rows1(g) # <<>>
                /\ rows2(g) # <<>>
                /\ Len(GroupVectors(rows1(g), rows2(g), memberField).vec1) > 1)
  IN  [k \in 1..Len(kept) |->
         LET v == GroupVectors(rows1(kept[k]), rows2(kept[k]), memberField)
         IN  [group |-> kept[k], metrics |-> computeCorrelationMetrics(v.vec1, v.vec2)]]

\* selectedItems ? selectedItems.split(',').filter(Boolean) : []
selectedItemsArray == SelectSeq(selectedItems, LAMBDA x : x # "")

\* A result list without a result record in place of the error.
GenesNotFoundAsEmptyResults == SSEResponse([results |-> <<>>])

GenesNotFound ==
  SSEResponse([error |-> <<"One or both genes not found in dataset", gene1, gene2>>])

AnalysisResult(gene1Data, gene2Data, tissueCorrelations, cellCorrelations) ==
  [ p1_name |-> gene1Data[1].gene_name, p1_uniprot |-> gene1,
    p1_ensembl |-> gene1Data[1].gene,
    p2_name |-> gene2Data[1].gene_name, p2_uniprot |-> gene2,
    p2_ensembl |-> gene2Data[1].gene,
    pair_id |-> <<gene1, gene2>>,
    tissue_correlations |-> tissueCorrelations,
    cell_correlations |-> cellCorrelations ]

handleTissueSpecificAnalysis ==
  LET expressionData == loadExpressionDataForGenes(gene1, gene2)
      gene1Data == GeneData(expressionData, gene1)
      gene2Data == GeneData(expressionData, gene2)
      tissues == IF Len(selectedItemsArray) > 0 THEN selectedItemsArray
                 ELSE Unique(Column(expressionData, "tissue"))
  IN  IF Len(gene1Data) = 0 \/ Len(gene2Data) = 0 THEN GenesNotFound
      ELSE SSEResponse([results |-> <<AnalysisResult(gene1Data, gene2Data,
             GroupCorrelations(gene1Data, gene2Data, tissues, "tissue", "cell_type_full"),
             <<>>)>>])

handleCellSpecificAnalysis ==
  LET expressionData == loadExpressionDataForGenes(gene1, gene2)
      gene1Data == GeneData(expressionData, gene1)
      gene2Data == GeneData(expressionData, gene2)
      cellTypes == IF Len(selectedItemsArray) > 0 THEN selectedItemsArray
                   ELSE Unique(Column(gene1Data, "cell_type_full"))
  IN  IF Len(gene1Data) = 0 \/ Len(gene2Data) = 0 THEN GenesNotFound
      ELSE SSEResponse([results |-> <<AnalysisResult(gene1Data, gene2Data, <<>>,
             GroupCorrelations(gene1Data, gene2Data, cellTypes, "cell_type_full", "tissue"))>>])

\* if (!gene1 || !gene2 || !analysisMode)
AnalysisParamsMissing == gene1 = "" \/ gene2 = "" \/ analysisMode = ""

AnalysisValidate ==
  /\ route = "analysis"
  /\ pc = "validate"
  /\ IF AnalysisParamsMissing THEN Return(MissingParameters)
     ELSE pc' = "analyze" /\ UNCHANGED response
  /\ UNCHANGED << params, engineVars, aggregatorVars, clientVars, importVars, dbQueries, allPairs, pairs, loopVars, stream, channel,
                  inFlight, trace, caught, unhandled >>

\* The handler of the chosen mode: the collection is queried once, or the
\* connection promise rejects and the handler's catch answers.
Analyze ==
  /\ pc = "analyze"
  /\ \E connected \in BOOLEAN :
       IF ~connected
       THEN /\ Return(SSEResponse(
                 [ error |-> IF analysisMode = "tissue-specific"
                             THEN "Error processing tissue-specific analysis"
                             ELSE "Error processing cell-specific analysis",
                   details |-> "Error querying expression data" ]))
            /\ UNCHANGED dbQueries
       ELSE /\ Return(IF analysisMode = "tissue-specific"
                      THEN handleTissueSpecificAnalysis
                      ELSE handleCellSpecificAnalysis)
            /\ dbQueries' = dbQueries + 1
  /\ UNCHANGED << params, engineVars, aggregatorVars, clientVars, importVars, allPairs, pairs, loopVars, stream, channel,
                  inFlight, trace, caught, unhandled >>

(***************************************************************************)
(* The specification.                                                      *)
(***************************************************************************)
Next ==
  \/ Validate
  \/ Connect
  \/ SynthesizePairs
  \/ QueryPairs
  \/ TissueSearch
  \/ NotifyReceptor
  \/ FetchReceptor
  \/ ReceptorReturns
  \/ NotifyLigand
  \/ FetchLigand
  \/ LigandReturns
  \/ Combine
  \/ Sort
  \/ Send
  \/ Catch
  \/ Finally
  \/ Detach
  \/ AnalysisValidate
  \/ Analyze

Spec == Init /\ [][Next]_vars

(***************************************************************************)
(* The two metrics functions on their own: computeFeatures of the          *)
(* expression data extractor and computeCorrelationMetrics of the          *)
(* tissue-cell analysis route, called once on a pair of vectors.           *)
(* Intensities are non-negative integers.                                  *)
(***************************************************************************)
MaxVectorLength == 3

MaxIntensity == 2

Vectors == UNION {[1..n -> 0..MaxIntensity] : n \in 0..MaxVectorLength}

\* Vectors beyond the bounds: a ramp of four values, and vectors longer than
\* the ten positions the top-expressed comparison keeps.
ScenarioVectors ==
  { <<1, 2, 3, 4>>,
    <<4, 3, 2, 1>>,
    <<5, 5, 5, 5, 5, 5, 5, 5, 5, 5, 5, 5>>,
    <<1, 2, 3, 4, 5, 6, 7, 8, 9, 10, 11, 12>>,
    <<12, 11, 10, 9, 8, 7, 6, 5, 4, 3, 2, 1>>,
    <<0, 9, 0, 9, 1, 1, 1, 1, 1, 1, 1, 1>>,
    <<0, 9, 0, 1, 1, 1, 1, 1, 1, 1, 1, 9>>,
    <<3, 3, 7, 3, 3, 3, 3, 3, 3, 3, 3>>,
    <<1, 2, 3, 4, 5, 6, 7, 8, 9, 10, 11>> }

EngineInit ==
  /\ NoRequest
  /\ NoClient
  /\ NoImport
  /\ gene1 = "" /\ gene2 = ""
  /\ NoGrouping
  /\ engine = ""
  /\ output = <<>>
  /\ \/ input1 \in Vectors /\ input2 \in Vectors
     \/ input1 \in ScenarioVectors /\ input2 \in ScenarioVectors

CallComputeFeatures ==
  /\ engine = ""
  /\ engine' = "computeFeatures"
  /\ output' = computeFeatures(input1, input2)
  /\ UNCHANGED << requestVars, clientVars, importVars, aggregatorVars, input1, input2 >>

CallComputeCorrelationMetrics ==
  /\ engine = ""
  /\ engine' = "computeCorrelationMetrics"
  /\ output' = computeCorrelationMetrics(input1, input2)
  /\ UNCHANGED << requestVars, clientVars, importVars, aggregatorVars, input1, input2 >>

EngineNext ==
  \/ CallComputeFeatures
  \/ CallComputeCorrelationMetrics

EngineSpec == EngineInit /\ [][EngineNext]_vars

(***************************************************************************)
(* The grouping routes: /api/all-cell-expression (cell type, then tissue), *)
(* /api/all-tissue-cell-expression (tissue, then cell type; with cellType  *)
(* the tissues of one cell type) and its earlier version over the long     *)
(* field names (part_000).  The collection holds records {g, gn, t, ct, n} *)
(* in the store's order; a JSON object is the sequence of its {key, value} *)
(* members in insertion order.                                             *)
(***************************************************************************)
MaxRecords == 3

StoredGenes == {[g |-> "ENSG1", gn |-> "G1"], [g |-> "ENSG2", gn |-> "G2"]}

StoredTissues == {"liver", "lung"}

StoredCellTypes == {"b_cells", "t_cells"}

\* nTPM values; 0 is "not expressed".
StoredExpression == {0, 1}

StoredRecords ==
  { [g |-> gene.g, gn |-> gene.gn, t |-> t, ct |-> ct, n |-> n] :
      gene \in StoredGenes, t \in StoredTissues, ct \in StoredCellTypes,
      n \in StoredExpression }

Collections == UNION {[1..k -> StoredRecords] : k \in 0..MaxRecords}

\* s.toUpperCase() on the gene names of the model.
Upper(s) ==
  CASE s = "g1" -> "G1" [] s = "g2" -> "G2"
    [] s = "ensg1" -> "ENSG1" [] s = "ensg2" -> "ENSG2"
    [] OTHER -> s

\* The position of a key in the order of String.prototype.localeCompare.
KeyRank(key) ==
  CASE key = "b_cells" -> 1
    [] key = "liver" -> 2
    [] key = "lung" -> 3
    [] key = "t_cells" -> 4

\* tissue.replace(/_/g, ' ').replace(/\b\w/g, l => l.toUpperCase())
DisplayName(key) ==
  CASE key = "b_cells" -> "B Cells"
    [] key = "liver" -> "Liver"
    [] key = "lung" -> "Lung"
    [] key = "t_cells" -> "T Cells"

\* param.split(',').map(t => t.trim())
SplitTrim(param) == [k \in 1..Len(param) |-> param[k].core]

\* collection.find(query).toArray(): the records of either gene, by upper-
\* or lower-cased name or identifier, restricted to the listed values of
\* the field when the list is given.
Find(records, name1, name2, field, param) ==
  LET geneNames == {Upper(name1), Upper(name2), Lower(name1), Lower(name2)}
  IN  SelectSeq(records, LAMBDA r :
        /\ r.gn \in geneNames \/ r.g \in geneNames
        /\ Falsy(param) \/ r[field] \in Range(SplitTrim(param)))

\* expressionData.filter(record => record.gn.toLowerCase() === gene.toLowerCase()
\*                              || record.g.toLowerCase() === gene.toLowerCase())
GeneRecords(expressionData, name) ==
  SelectSeq(expressionData, LAMBDA r :
    Lower(r.gn) = Lower(name) \/ Lower(r.g) = Lower(name))

\* geneData[0]?.gn || gene
GeneName(geneData, name) == IF Len(geneData) > 0 THEN geneData[1].gn ELSE name

\* rows.find(...)?.n || 0 : the value of the first of the rows.
FirstExpression(rows) == IF Len(rows) > 0 THEN rows[1].n ELSE 0

InsertByKey(entry, sorted, field) ==
  LET k == Cardinality({j \in 1..Len(sorted) :
                          KeyRank(sorted[j][field]) <= KeyRank(entry[field])})
  IN  SubSeq(sorted, 1, k) \o <<entry>> \o SubSeq(sorted, k + 1, Len(sorted))

RECURSIVE SortByKey(_, _)
\* entries.sort((a, b) => a[field].localeCompare(b[field]))
SortByKey(entries, field) ==
  IF Len(entries) = 0 THEN <<>>
  ELSE InsertByKey(entries[Len(entries)],
                   SortByKey(SubSeq(entries, 1, Len(entries) - 1), field), field)

\* (gene1Tissue?.n || 0) > 0 || (gene2Tissue?.n || 0) > 0
Expressed(entry) == entry.gene1_expression > 0 \/ entry.gene2_expression > 0

\* The tissues of one cell type: one entry per tissue of the rows, in order
\* of first occurrence, kept when a gene is expressed, then sorted by tissue.
TissueEntries(tissueRows, gene1Data, gene2Data, cellType, name1, name2) ==
  LET gene1CellData == RowsWith(gene1Data, "ct", cellType)
      gene2CellData == RowsWith(gene2Data, "ct", cellType)
      uniqueTissues == Unique(Column(tissueRows, "t"))
      entry(tissue) ==
        [ tissueType |-> DisplayName(tissue),
          tissue     |-> tissue,
          cellType   |-> cellType,
          gene1_name |-> GeneName(gene1Data, name1),
          gene1_expression |-> FirstExpression(RowsWith(gene1CellData, "t", tissue)),
          gene2_name |-> GeneName(gene2Data, name2),
          gene2_expression |-> FirstExpression(RowsWith(gene2CellData, "t", tissue)) ]
      pushed == SelectSeq([k \in 1..Len(uniqueTissues) |-> entry(uniqueTissues[k])],
                          Expressed)
  IN  SortByKey(pushed, "tissue")

\* all-cell-expression: cellGroupedData[cellType] = cellTissueData for every
\* cell type of the records, in order of first occurrence.
cellGroupedData(expressionData, name1, name2) ==
  LET gene1Data == GeneRecords(expressionData, name1)
      gene2Data == GeneRecords(expressionData, name2)
      allCellTypes == Unique(Column(expressionData, "ct"))
      cellTissueData(cellType) ==
        TissueEntries(RowsWith(gene1Data, "ct", cellType)
                        \o RowsWith(gene2Data, "ct", cellType),
                      gene1Data, gene2Data, cellType, name1, name2)
  IN  [k \in 1..Len(allCellTypes) |->
         [key |-> allCellTypes[k], value |-> cellTissueData(allCellTypes[k])]]

\* all-tissue-cell-expression with cellType: the tissues of the one cell type
\* the query selected, as a list.
tissueData(expressionData, cellType, name1, name2) ==
  TissueEntries(expressionData, GeneRecords(expressionData, name1),
                GeneRecords(expressionData, name2), cellType, name1, name2)

\* all-tissue-cell-expression: tissueGroupedData[tissue] = tissueCellData for
\* every tissue of the records, in order of first occurrence; every cell
\* type of the tissue is pushed.
tissueGroupedData(expressionData, name1, name2) ==
  LET gene1Data == GeneRecords(expressionData, name1)
      gene2Data == GeneRecords(expressionData, name2)
      allTissues == Unique(Column(expressionData, "t"))
      tissueCellData(tissue) ==
        LET gene1TissueData == RowsWith(gene1Data, "t", tissue)
            gene2TissueData == RowsWith(gene2Data, "t", tissue)
            uniqueCellTypes == Unique(Column(gene1TissueData, "ct")
                                        \o Column(gene2TissueData, "ct"))
            entry(cellTypeItem) ==
              [ cellType   |-> cellTypeItem,
                tissue     |-> tissue,
                gene1_name |-> GeneName(gene1Data, name1),
                gene1_expression |->
                  FirstExpression(RowsWith(gene1TissueData, "ct", cellTypeItem)),
                gene2_name |-> GeneName(gene2Data, name2),
                gene2_expression |->
                  FirstExpression(RowsWith(gene2TissueData, "ct", cellTypeItem)),
                cell_type  |-> cellTypeItem ]
        IN  SortByKey([k \in 1..Len(uniqueCellTypes) |-> entry(uniqueCellTypes[k])],
                            "cellType")
  IN  [k \in 1..Len(allTissues) |->
         [key |-> allTissues[k], value |-> tissueCellData(allTissues[k])]]

GeneParamSamples == {"", "g1"}

FilterSamples(values) == {NoParam} \cup {<<Item(v, TRUE)>> : v \in values}

AggregatorInit ==
  /\ NoRequest
  /\ NoClient
  /\ NoImport
  /\ NoEngineCall
  /\ gene1 \in GeneParamSamples
  /\ gene2 = "G2"
  /\ handler = NoHandler
  /\ collection \in Collections
  /\ grouped = <<>>

Handled(name, status, shape) == [route |-> name, status |-> status, shape |-> shape]

GroupingParamsMissing == gene1 = "" \/ gene2 = ""

MissingParametersBody == [error |-> "Missing required parameters"]

FailedBody(message) == [error |-> message, details |-> "db"]

\* GET /api/all-cell-expression
AllCellExpression ==
  /\ handler = NoHandler
  /\ \E cellTypes \in FilterSamples({"t_cells"}), dbOk \in BOOLEAN :
       IF GroupingParamsMissing
       THEN /\ handler' = Handled("all-cell-expression", 400, "error")
            /\ grouped' = MissingParametersBody
       ELSE IF ~dbOk
       THEN /\ handler' = Handled("all-cell-expression", 500, "error")
            /\ grouped' = FailedBody("Failed to fetch cell expression data")
       ELSE /\ handler' = Handled("all-cell-expression", 200, "groups")
            /\ grouped' = cellGroupedData(
                            Find(collection, gene1, gene2, "ct", cellTypes),
                            gene1, gene2)
  /\ UNCHANGED << requestVars, clientVars, importVars, engineVars, collection >>

\* GET /api/all-tissue-cell-expression
AllTissueCellExpression ==
  /\ handler = NoHandler
  /\ \E cellType \in {NoParam, <<Item("t_cells", FALSE)>>},
        tissues \in FilterSamples({"liver"}), dbOk \in BOOLEAN :
       IF GroupingParamsMissing
       THEN /\ handler' = Handled("all-tissue-cell-expression", 400, "error")
            /\ grouped' = MissingParametersBody
       ELSE IF ~dbOk
       THEN /\ handler' = Handled("all-tissue-cell-expression", 500, "error")
            /\ grouped' = FailedBody("Failed to fetch expression data")
       ELSE IF ~Falsy(cellType)
       THEN /\ handler' = Handled("all-tissue-cell-expression", 200, "list")
            /\ grouped' = tissueData(
                            SelectSeq(Find(collection, gene1, gene2, "ct", NoParam),
                                      LAMBDA r : r.ct = Plain(cellType)),
                            Plain(cellType), gene1, gene2)
       ELSE /\ handler' = Handled("all-tissue-cell-expression", 200, "groups")
            /\ grouped' =
                 [ gene1 |-> gene1, gene2 |-> gene2,
                   tissueData |-> tissueGroupedData(
                                    Find(collection, gene1, gene2, "t", tissues),
                                    gene1, gene2) ]
  /\ UNCHANGED << requestVars, clientVars, importVars, engineVars, collection >>

\* GET of the earlier tissue grouping route over the long field names; its
\* query matches the genes by case-insensitive regular expression, which
\* selects the same records of the collection.
TissueCellExpression ==
  /\ handler = NoHandler
  /\ \E tissues \in FilterSamples({"lung"}), dbOk \in BOOLEAN :
       IF GroupingParamsMissing
       THEN /\ handler' = Handled("tissue-cell-expression", 400, "error")
            /\ grouped' = MissingParametersBody
       ELSE IF ~dbOk
       THEN /\ handler' = Handled("tissue-cell-expression", 500, "error")
            /\ grouped' = FailedBody("Failed to fetch expression data")
       ELSE /\ handler' = Handled("tissue-cell-expression", 200, "groups")
            /\ grouped' =
                 [ gene1 |-> gene1, gene2 |-> gene2,
                   tissueData |-> tissueGroupedData(
                                    Find(collection, gene1, gene2, "t", tissues),
                                    gene1, gene2) ]
  /\ UNCHANGED << requestVars, clientVars, importVars, engineVars, collection >>

AggregatorNext ==
  \/ AllCellExpression
  \/ AllTissueCellExpression
  \/ TissueCellExpression

AggregatorSpec == AggregatorInit /\ [][AggregatorNext]_vars

(***************************************************************************)
(* The search form (SearchForm).  The component is kept in three revisions *)
(* that differ in the messages the handler knows; all open one EventSource *)
(* per request.  An EventSource is the record of the request it was opened *)
(* for, its readyState, what the server has sent on it, and the number of  *)
(* progress messages delivered.  The display state (error, currentGene,    *)
(* processedCount) is written and never read by the code modelled here.    *)
(***************************************************************************)
\* EventSources one form opens.
MaxRequests == 3

\* Progress messages of one response.
MaxProgress == 2

ClientInit ==
  /\ NoRequest
  /\ gene1 = "" /\ gene2 = ""
  /\ NoEngineCall
  /\ NoGrouping
  /\ NoImport
  /\ revision \in 1..3
  /\ mounted = TRUE
  /\ loading = FALSE
  /\ hasMore = TRUE
  /\ currentPage = 1
  /\ shown = 0
  /\ eventSources = <<>>
  /\ afterUnmount = FALSE

\* The messages the route writes in answer to the request for one page.
ServerMessages(requested) ==
  { [currentGene |-> "G", hasResults |-> FALSE, results |-> 0,
     hasMore |-> FALSE, currentPage |-> requested, error |-> ""] }
    \cup { [currentGene |-> "", hasResults |-> TRUE, results |-> n,
            hasMore |-> more, currentPage |-> requested, error |-> ""] :
           n \in 0..1, more \in BOOLEAN }
    \cup { [currentGene |-> "", hasResults |-> FALSE, results |-> 0,
            hasMore |-> FALSE, currentPage |-> requested,
            error |-> "No valid results found"] }

\* new EventSource(`/api/search?...`) with its two handlers attached.
fetchResults(requested, isNewSearch) ==
  eventSources' = Append(eventSources,
                         [ page |-> requested, isNewSearch |-> isNewSearch,
                           readyState |-> "open", server |-> "streaming",
                           progress |-> 0 ])

\* The submit button is disabled while loading.
handleSubmit ==
  /\ mounted
  /\ ~loading
  /\ Len(eventSources) < MaxRequests
  /\ loading' = TRUE
  /\ shown' = 0
  /\ currentPage' = 1
  /\ hasMore' = TRUE
  /\ fetchResults(1, TRUE)
  /\ UNCHANGED << requestVars, engineVars, aggregatorVars, importVars,
                  revision, mounted, afterUnmount >>

loadMoreUnguarded ==
  /\ revision \in {1, 2}
  /\ mounted
  /\ shown > 0
  /\ hasMore
  /\ Len(eventSources) < MaxRequests
  /\ loading' = TRUE
  /\ fetchResults(currentPage + 1, FALSE)
  /\ UNCHANGED << requestVars, engineVars, aggregatorVars, importVars,
                  revision, mounted, hasMore, currentPage, shown,
                  afterUnmount >>

\* The button is rendered when results.length > 0 && hasMore; the third
\* revision has none.
loadMore ==
  /\ revision \in {1, 2}
  /\ mounted
  /\ shown > 0
  /\ ~loading /\ hasMore
  /\ Len(eventSources) < MaxRequests
  /\ loading' = TRUE
  /\ fetchResults(currentPage + 1, FALSE)
  /\ UNCHANGED << requestVars, engineVars, aggregatorVars, importVars,
                  revision, mounted, hasMore, currentPage, shown,
                  afterUnmount >>

\* eventSource.onmessage of the k-th EventSource.  A closed EventSource
\* dispatches nothing.  The setters are applied as written, mounted or not.
onmessage(k, data) ==
  /\ k \in DOMAIN eventSources
  /\ eventSources[k].readyState = "open"
  /\ eventSources[k].server = "streaming"
  /\ data \in ServerMessages(eventSources[k].page)
  /\ afterUnmount' = (afterUnmount \/ ~mounted)
  /\ IF data.currentGene # ""
     THEN /\ eventSources[k].progress < MaxProgress
          /\ eventSources' = [eventSources EXCEPT ![k].progress = @ + 1]
          /\ UNCHANGED << loading, hasMore, currentPage, shown >>
     ELSE IF data.hasResults
     THEN /\ shown' = IF eventSources[k].isNewSearch \/ revision = 3
                      THEN data.results
                      ELSE shown + data.results
          /\ hasMore' = IF revision = 3 THEN hasMore ELSE data.hasMore
          /\ currentPage' = IF revision = 3 THEN currentPage
                            ELSE data.currentPage
          /\ eventSources' = [eventSources EXCEPT ![k].readyState = "closed"]
          /\ loading' = FALSE
     ELSE IF data.error # "" /\ revision = 2
     THEN /\ eventSources' = [eventSources EXCEPT ![k].readyState = "closed"]
          /\ loading' = FALSE
          /\ UNCHANGED << hasMore, currentPage, shown >>
     ELSE \* no branch for the message: the response is over, nothing is set
          /\ eventSources' = [eventSources EXCEPT ![k].server = "terminal"]
          /\ UNCHANGED << loading, hasMore, currentPage, shown >>
  /\ UNCHANGED << requestVars, engineVars, aggregatorVars, importVars,
                  revision, mounted >>

\* eventSource.onerror of the k-th EventSource: the response ended, with or
\* without a last message, or the connection failed.
onerror(k) ==
  /\ k \in DOMAIN eventSources
  /\ eventSources[k].readyState = "open"
  /\ afterUnmount' = (afterUnmount \/ ~mounted)
  /\ eventSources' = [eventSources EXCEPT ![k].readyState = "closed"]
  /\ loading' = FALSE
  /\ UNCHANGED << requestVars, engineVars, aggregatorVars, importVars,
                  revision, mounted, hasMore, currentPage, shown >>

\* The cleanup of the effect: a new EventSource, closed at once.
Unmount ==
  /\ mounted
  /\ mounted' = FALSE
  /\ eventSources' = Append(eventSources,
                            [ page |-> 0, isNewSearch |-> FALSE,
                              readyState |-> "closed", server |-> "streaming",
                              progress |-> 0 ])
  /\ UNCHANGED << requestVars, engineVars, aggregatorVars, importVars,
                  revision, loading, hasMore, currentPage, shown,
                  afterUnmount >>

\* What the server and the connection do to the form.
ServerEvent ==
  \E k \in DOMAIN eventSources :
    \/ \E data \in ServerMessages(eventSources[k].page) : onmessage(k, data)
    \/ onerror(k)

ClientNext ==
  \/ handleSubmit
  \/ loadMore
  \/ Unmount
  \/ ServerEvent

ClientSpec == ClientInit /\ [][ClientNext]_vars

\* The route handler always ends its response (it closes the writer in every
\* branch), and the browser dispatches what arrives.
ClientFairSpec == ClientSpec /\ WF_vars(ServerEvent)

(***************************************************************************)
(* The import script (importExpressionData).  A record is known by the     *)
(* number of its line.  insertMany gives every document of the batch its   *)
(* _id before it sends them, so a document that the failed insertMany did  *)
(* store is refused by the insertOne of the fallback (duplicate key).      *)
(***************************************************************************)
\* Records of one insertMany.  The source sets 500; the model runs the same
\* code with a small batch so that full and final batches both occur.
batchSize == 2

\* Lines of the file after the header.
MaxLines == 4

\* The header, then lines with at least 7 fields, with fewer, or empty.
Files ==
  { <<"header">> \o body :
      body \in UNION { [1..n -> {"record", "short", "blank"}] :
                         n \in 0..MaxLines } }

ImportInit ==
  /\ NoRequest
  /\ gene1 = "" /\ gene2 = ""
  /\ NoEngineCall
  /\ NoGrouping
  /\ NoClient
  /\ file \in Files
  /\ lineCount = 0
  /\ batch = <<>>
  /\ totalInserted = 0
  /\ imported = <<>>
  /\ step = "read"
  /\ retry = 0

\* One turn of `for await (const line of rl)`, up to the insert.
ReadLine ==
  /\ step = "read"
  /\ lineCount < Len(file)
  /\ lineCount' = lineCount + 1
  /\ IF lineCount' = 1 \/ file[lineCount'] # "record"
     THEN UNCHANGED << batch, step >>
     ELSE /\ batch' = Append(batch, lineCount')
          /\ step' = IF Len(batch') >= batchSize THEN "insertMany" ELSE "read"
  /\ UNCHANGED << requestVars, engineVars, aggregatorVars, clientVars,
                  file, totalInserted, imported, retry >>

\* The loop is over: insert the remaining records, if any.
EndOfFile ==
  /\ step = "read"
  /\ lineCount = Len(file)
  /\ step' = IF Len(batch) > 0 THEN "insertFinal" ELSE "done"
  /\ UNCHANGED << requestVars, engineVars, aggregatorVars, clientVars,
                  file, lineCount, batch, totalInserted, imported, retry >>

\* The positions of batch in written, in the order of batch.
Written(written) == SelectSeq(batch, LAMBDA record : record \in written)

\* collection.insertMany(batch, {ordered: false}): it stores every record
\* and returns, or stores some of them (any, none or all) and throws.
InsertMany ==
  /\ step \in {"insertMany", "insertFinal"}
  /\ \E written \in SUBSET Range(batch), thrown \in BOOLEAN :
       /\ ~thrown => written = Range(batch)
       /\ imported' = imported \o Written(written)
       /\ IF thrown
          THEN /\ step' = IF step = "insertMany" THEN "retry" ELSE "retryFinal"
               /\ retry' = 1
               /\ UNCHANGED << totalInserted, batch >>
          ELSE /\ totalInserted' = totalInserted + Len(batch)
               /\ batch' = IF step = "insertMany" THEN <<>> ELSE batch
               /\ step' = IF step = "insertMany" THEN "read" ELSE "done"
               /\ UNCHANGED retry
  /\ UNCHANGED << requestVars, engineVars, aggregatorVars, clientVars,
                  file, lineCount >>

\* One turn of the fallback loop: collection.insertOne(record) stores the
\* record and is counted, or throws and the record is skipped.
InsertOne ==
  /\ step \in {"retry", "retryFinal"}
  /\ \E accepted \in BOOLEAN :
       IF accepted /\ batch[retry] \notin Range(imported)
       THEN /\ imported' = Append(imported, batch[retry])
            /\ totalInserted' = totalInserted + 1
       ELSE UNCHANGED << imported, totalInserted >>
  /\ IF retry < Len(batch)
     THEN retry' = retry + 1 /\ UNCHANGED << batch, step >>
     ELSE /\ retry' = 0
          /\ batch' = IF step = "retry" THEN <<>> ELSE batch
          /\ step' = IF step = "retry" THEN "read" ELSE "done"
  /\ UNCHANGED << requestVars, engineVars, aggregatorVars, clientVars,
                  file, lineCount >>

ImportNext ==
  \/ ReadLine
  \/ EndOfFile
  \/ InsertMany
  \/ InsertOne

ImportSpec == ImportInit /\ [][ImportNext]_vars

(***************************************************************************)
(* Properties.                                                             *)
(***************************************************************************)
\* The request reached the streaming stage.
Streaming == response = StreamResponse

\* The closure has left the loop over the pairs.
AfterLoop == Streaming /\ pc \in {"sort", "send", "catch", "finally", "done"}

PairsIn(st) == {k \in 1..Len(pairState) : pairState[k] = st}

\* The pair the e-th entry of errors was recorded for: the e-th failed pair.
NthFailed(e) ==
  CHOOSE k \in PairsIn("Failed") : Cardinality({j \in PairsIn("Failed") : j < k}) = e - 1

FetchEvents == {k \in 1..Len(trace) : trace[k].ev = "fetch"}

\* The error message names an identifier of the pair; a fetch error names an
\* identifier that was fetched for pair k.
ErrorIdentifies(err, k) ==
  IF err.text = "Could not fetch expression data for"
  THEN /\ err.id \in {pairs[k].p1_id, pairs[k].p2_id}
       /\ \E t \in FetchEvents : trace[t].pair = k /\ trace[t].id = err.id
  ELSE err.p1_id = pairs[k].p1_id /\ err.p2_id = pairs[k].p2_id

LastMsg == stream[Len(stream)]

IsProgress(m) == "currentGene" \in DOMAIN m

IsResultsMsg(m) == "results" \in DOMAIN m

\* The terminal message has been written.
TerminalWritten == Streaming /\ Len(stream) > 0 /\ ~IsProgress(LastMsg)

\* The position in the page of the pair a result was computed for.
PagePosition(r) == CHOOSE k \in 1..Len(pairs) : pairs[k] = r.pair

\* C2: when the closure has finished with the consumer attached and at least
\* one pair succeeded, the terminal message is the results message, it holds
\* every successful pair, and its results are in descending order of
\* features.combined.pearson_corr, equal keys in page order.
C2_ResultsSortedDescending ==
  (pc = "done" /\ Streaming /\ channel = "closed" /\ PairsIn("Succeeded") # {}) =>
    /\ Len(stream) > 0
    /\ IsResultsMsg(LastMsg)
    /\ Len(LastMsg.results) = Cardinality(PairsIn("Succeeded"))
    /\ \A a, b \in 1..Len(LastMsg.results) :
         a < b =>
           LET ra == LastMsg.results[a]
               rb == LastMsg.results[b]
           IN  /\ HasCombined(ra.features)
               /\ HasCombined(rb.features)
               /\ ~SurdGreater(rb.features.combined.pearson_corr,
                               ra.features.combined.pearson_corr)
               /\ ~SurdGreater(ra.features.combined.pearson_corr,
                               rb.features.combined.pearson_corr)
                    => PagePosition(ra) < PagePosition(rb)

\* C3: the pairs of the page are the elements (page-1)*pageSize+1 ..
\* page*pageSize of the candidate list (as far as it reaches), in order, and
\* every message that carries hasMore has it true exactly when the page holds
\* pageSize pairs.
C3_PageIsSliceAndHasMore ==
  Streaming =>
    LET first == (page - 1) * MAX_PAIRS_PER_REQUEST
        last  == IF Len(allPairs) < page * MAX_PAIRS_PER_REQUEST
                 THEN Len(allPairs) ELSE page * MAX_PAIRS_PER_REQUEST
    IN  /\ Len(pairs) = last - first
        /\ \A k \in 1..Len(pairs) : pairs[k] = allPairs[first + k]
        /\ \A k \in 1..Len(stream) :
             "hasMore" \in DOMAIN stream[k] =>
               (stream[k].hasMore <=> (Len(pairs) = MAX_PAIRS_PER_REQUEST))

\* The second page of a longer candidate list, full, reported with hasMore.
C3_Witness ==
  /\ TerminalWritten
  /\ page = 2
  /\ Len(allPairs) > MAX_PAIRS_PER_REQUEST
  /\ IsResultsMsg(LastMsg)
  /\ LastMsg.hasMore

\* A page with at least one pair whose terminal message was written after no
\* pair succeeded.
ZeroSuccessTerminal ==
  TerminalWritten /\ Len(pairs) >= 1 /\ Len(results) = 0 /\ caught = ""

\* C4 as stated: in every search mode, a page with at least one pair and no
\* success ends with an error payload that carries the errors list and no
\* results.
C4_ZeroSuccessIsErrorPayload ==
  ZeroSuccessTerminal =>
    /\ "error" \in DOMAIN LastMsg
    /\ "errors" \in DOMAIN LastMsg
    /\ ~IsResultsMsg(LastMsg)

\* C4 amended: with at least one pair and no success the terminal message
\* carries one error per pair; in compare mode it is the error payload
\* {error, details, errors} without results, in every other mode it is the
\* results message with an empty results list and the errors list.
C4_ZeroSuccessByMode ==
  ZeroSuccessTerminal =>
    /\ "errors" \in DOMAIN LastMsg
    /\ LastMsg.errors = errors
    /\ Len(errors) = Len(pairs)
    /\ IF searchMode = "compare"
       THEN "error" \in DOMAIN LastMsg /\ ~IsResultsMsg(LastMsg)
       ELSE /\ IsResultsMsg(LastMsg)
            /\ LastMsg.results = <<>>
            /\ "error" \notin DOMAIN LastMsg

\* Search-all mode, every pair of the page failed, results message written.
C4_Witness ==
  /\ ZeroSuccessTerminal
  /\ searchMode = "all"
  /\ Len(pairs) >= 2
  /\ IsResultsMsg(LastMsg)

SequentialFetches ==
  /\ Len(inFlight) <= 1
  /\ \A t \in FetchEvents :
       /\ t > 1
       /\ trace[t - 1].ev = "progress"
       /\ trace[t - 1].id = trace[t].id
       /\ \A j \in 1..(trace[t].pair - 1) : pairState[j] \in {"Succeeded", "Failed"}
       /\ \A u \in FetchEvents :
            u < t => \/ trace[u].pair < trace[t].pair
                     \/ (trace[u].pair = trace[t].pair /\ trace[u].ord < trace[t].ord)

C7_EachPairReportedOnce ==
  TerminalWritten =>
    LET rs == IF "results" \in DOMAIN LastMsg THEN LastMsg.results ELSE <<>>
        es == IF "errors" \in DOMAIN LastMsg THEN LastMsg.errors ELSE <<>>
    IN  /\ Len(rs) + Len(es) = Len(pairs)
        /\ Len(es) = Cardinality(PairsIn("Failed"))
        /\ \A e \in 1..Len(es) : ErrorIdentifies(es[e], NthFailed(e))
        /\ \A k \in 1..Len(pairs) :
             LET reported == Cardinality({j \in 1..Len(rs) : rs[j].pair = pairs[k]})
             IN  \/ pairState[k] = "Succeeded" /\ reported = 1
                 \/ pairState[k] = "Failed" /\ reported = 0

\* C8: once the consumer has detached no fetch is started and the pairs not
\* yet taken up are left alone: they stay Pending and get no error entry.
C8_StopsEarlyOnDetach ==
  [][ channel = "cancelled" =>
        /\ \A t \in 1..Len(trace') : t > Len(trace) => trace'[t].ev # "fetch"
        /\ \A k \in 1..Len(pairState) :
             pairState[k] = "Pending" => pairState'[k] = "Pending"
        /\ errors' = errors ]_vars

\* A required parameter of the request is absent or empty.
RequiredParameterAbsent ==
  \/ /\ route = "search"
     /\ \/ query \in {NoParam, EmptyString}
        \/ searchMode = ""
        \/ searchMode = "compare" /\ secondQuery \in {NoParam, EmptyString}
        \/ searchMode = "tissue-specific" /\ selectedTissue = ""
  \/ /\ route = "analysis"
     /\ (gene1 = "" \/ gene2 = "" \/ analysisMode = "")

\* C9: a request with a required parameter absent does nothing but answer
\* 400 'Missing required parameters': the pair source and the expression
\* collection are never queried, no stream is opened, no progress message is
\* written and no profile fetch is started.
C9_MissingParameterEndsRequest ==
  RequiredParameterAbsent =>
    /\ pc \in {"validate", "done"}
    /\ pc = "done" =>
         response = [ kind |-> "json", status |-> 400,
                      body |-> [error |-> "Missing required parameters"] ]
    /\ dbQueries = 0
    /\ channel = "none"
    /\ stream = <<>>
    /\ trace = <<>>
    /\ inFlight = <<>>

\* A compare request without secondQuery, answered.
C9_Witness ==
  /\ route = "search"
  /\ searchMode = "compare"
  /\ secondQuery = NoParam
  /\ query \notin {NoParam, EmptyString}
  /\ pc = "done"
  /\ response.kind = "json"
  /\ response.status = 400

\* (r1 + r2) / 2 = r for three ratios num / den.
MeanIsRatio(mean, r) ==
  (mean.a.num * mean.b.den + mean.b.num * mean.a.den) * r.den
    = 2 * mean.a.den * mean.b.den * r.num

\* C10 (necessary conditions): the metrics of every feature bundle agree with
\* one computation on the concatenated vectors tissue ++ cell of either
\* entity: pearson_corr is NaN on both sides or on neither, jaccard_index is
\* the same number, and the counts are equal.
C10_CombinedOnConcatenation ==
  \A k \in 1..Len(results) :
    LET r == results[k]
        f == r.features
        c == computeFeatures(r.expression.receptor[1] \o r.expression.receptor[2],
                             r.expression.ligand[1] \o r.expression.ligand[2])
    IN  /\ (f.pearson_corr.a.d = 0 \/ f.pearson_corr.b.d = 0) <=> (c.pearson_corr.d = 0)
        /\ MeanIsRatio(f.jaccard_index, c.jaccard_index)
        /\ f.overlap_count = c.overlap_count
        /\ f.shared_top10_count = c.shared_top10_count
        /\ f.common_types = c.common_types

\* The payloads the client has received: the body of a JSON or single-event
\* response, and every message of the stream that is not a progress
\* notification.
Payloads ==
  (IF response.kind \in {"json", "sse"} THEN {response.body} ELSE {})
  \cup {stream[k] : k \in {j \in 1..Len(stream) : ~IsProgress(stream[j])}}

IsResultsPayload(m) ==
  {"results", "hasMore"} \subseteq DOMAIN m /\ "error" \notin DOMAIN m

IsErrorPayload(m) ==
  {"error", "details"} \subseteq DOMAIN m /\ "results" \notin DOMAIN m

\* C16: every payload the client receives is a results payload, holding
\* results and hasMore (and errors when a pair failed), or an error payload
\* holding both error and details.
C16_ResultsOrErrorPayload ==
  \A m \in Payloads : IsResultsPayload(m) \/ IsErrorPayload(m)

\* The analysis route answered with a result record.
AnalysisAnswered ==
  /\ route = "analysis"
  /\ response.kind = "sse"
  /\ "results" \in DOMAIN response.body

AnalysisData == loadExpressionDataForGenes(gene1, gene2)

\* The field that names the group of a vector pair, and the field that names
\* the categories the vectors run over.
GroupField == IF analysisMode = "tissue-specific" THEN "tissue" ELSE "cell_type_full"

MemberField == IF analysisMode = "tissue-specific" THEN "cell_type_full" ELSE "tissue"

\* The records of gene 1, and of gene 2, in one group.
Gene1In(group) == RowsWith(GeneData(AnalysisData, gene1), GroupField, group)

Gene2In(group) == RowsWith(GeneData(AnalysisData, gene2), GroupField, group)

\* The groups the handler goes through in which both genes have a record:
\* those a vector pair is built for.
BuiltGroups ==
  {group \in (IF Len(selectedItemsArray) > 0 THEN Range(selectedItemsArray)
              ELSE Range(Column(AnalysisData, GroupField))) :
     Gene1In(group) # <<>> /\ Gene2In(group) # <<>>}

\* The intensity of a category in the rows of one gene: 0 when it has none.
Intensity(rows, category) ==
  IF RowsWith(rows, MemberField, category) = <<>> THEN 0
  ELSE RowsWith(rows, MemberField, category)[1].nTPM

\* C21: the categories the two vectors of a group are built over are those
\* present in the records of either gene, less the categories where both
\* genes have intensity 0; a category of one gene only is kept.
C21_CategoriesAreUnion ==
  AnalysisAnswered =>
    \A group \in BuiltGroups :
      Range(SharedMembers(Gene1In(group), Gene2In(group), MemberField))
        = {category \in Range(Column(Gene1In(group), MemberField))
                          \cup Range(Column(Gene2In(group), MemberField)) :
             ~(Intensity(Gene1In(group), category) = 0
               /\ Intensity(Gene2In(group), category) = 0)}

\* A fetched profile has one value per column of the two column lists, so
\* position k of two profiles is the same column.
ColumnAligned(expr) ==
  expr # NoProfile =>
    /\ Len(expr[1]) = Len(tissueColumns)
    /\ Len(expr[2]) = Len(cellTypeColumns)

\* C22: the two vectors handed to a metrics function have the same length
\* and position k of both is the intensity of the same category: the
\* profiles of the search route run over the fixed column lists, the
\* vectors of the analysis route over one list of distinct categories.
C22_VectorsAligned ==
  /\ ColumnAligned(receptorExpr)
  /\ ColumnAligned(ligandExpr)
  /\ \A k \in 1..Len(results) :
       /\ ColumnAligned(results[k].expression.receptor)
       /\ ColumnAligned(results[k].expression.ligand)
  /\ AnalysisAnswered =>
       \A group \in BuiltGroups :
         LET v    == GroupVectors(Gene1In(group), Gene2In(group), MemberField)
             cats == SharedMembers(Gene1In(group), Gene2In(group), MemberField)
         IN  /\ Len(v.vec1) = Len(cats)
             /\ Len(v.vec2) = Len(cats)
             /\ \A j, k \in 1..Len(cats) : j # k => cats[j] # cats[k]
             /\ \A k \in 1..Len(cats) :
                  /\ v.vec1[k] = Intensity(Gene1In(group), cats[k])
                  /\ v.vec2[k] = Intensity(Gene2In(group), cats[k])

\* A pair is combined from a profile whose entry lacks columns.
C22_Witness ==
  /\ Len(results) > 0
  /\ results[1].expression.receptor = <<<<3, 0>>, <<0, 2>>>>
  /\ results[1].expression.ligand = <<<<2, 4>>, <<1, 1>>>>

\* Some stored record carries the identifier as its gene or its gene name,
\* whatever the case of the letters.
Stored(identifier) ==
  \E k \in 1..Len(expression_data) :
    \/ Lower(expression_data[k].gene_name) = Lower(identifier)
    \/ Lower(expression_data[k].gene) = Lower(identifier)

\* C23: when no stored record matches one of the two genes, the analysis
\* handler answers with an error and no result record.
C23_NotFoundGivesNoResult ==
  (route = "analysis" /\ response.kind = "sse"
     /\ (~Stored(gene1) \/ ~Stored(gene2)))
    => /\ "error" \in DOMAIN response.body
       /\ "results" \notin DOMAIN response.body

C23_Witness ==
  /\ route = "analysis"
  /\ gene1 = "G1"
  /\ gene2 = "GX"
  /\ dbQueries = 1
  /\ response.kind = "sse"
  /\ response.body.error = <<"One or both genes not found in dataset", "G1", "GX">>

\* The compare request has built its candidate pairs.
Synthesized ==
  /\ route = "search"
  /\ searchMode = "compare"
  /\ response.kind \in {"sse", "stream"}

\* The positions of a parameter's items that are not empty once trimmed.
Kept(param) == {k \in 1..Len(param) : param[k].core # ""}

\* The n-th kept item of a parameter, trimmed.
NthKept(param, n) ==
  param[CHOOSE k \in Kept(param) :
          Cardinality({j \in Kept(param) : j <= k}) = n].core

\* C24: in compare mode the candidate pairs are the cartesian product of the
\* two lists of trimmed, non-empty items: one pair per combination, the
\* first list as the outer loop, the identifier as id and as name.
C24_CandidatesAreCartesianProduct ==
  Synthesized =>
    LET n1 == Cardinality(Kept(query))
        n2 == Cardinality(Kept(secondQuery))
    IN  /\ Len(allPairs) = n1 * n2
        /\ \A a \in 1..n1 : \A b \in 1..n2 :
             allPairs[(a - 1) * n2 + b]
               = [ p1_id |-> NthKept(query, a), p1_name |-> NthKept(query, a),
                   p2_id |-> NthKept(secondQuery, b),
                   p2_name |-> NthKept(secondQuery, b) ]

C24_Witness ==
  /\ Synthesized
  /\ Len(allPairs) = 6
  /\ allPairs[2].p1_id = "R1" /\ allPairs[2].p2_id = "R1"
  /\ allPairs[3].p1_id = "R2" /\ allPairs[3].p2_id = "L1"

\* C25: when the terminal message of a page reports hasMore, the next page
\* of the same candidates holds at least one pair.
C25_HasMoreMeansNextPageNotEmpty ==
  \A k \in 1..Len(stream) :
    (IsResultsMsg(stream[k]) /\ stream[k].hasMore)
      => Len(PageOf(allPairs, page + 1)) > 0

\* C26: a result record holds under receptor the profile of the pair's p1
\* and under ligand the profile of its p2, and every message about a failed
\* fetch names the identifier with the role it has in its pair: receptor
\* for p1_id, ligand for p2_id.  The roles of the messages are checked.
C26_RolesFollowThePair ==
  \A e \in 1..Len(errors) :
    (errors[e].text = "Could not fetch expression data for"
       /\ e <= Cardinality(PairsIn("Failed")))
      => /\ errors[e].role = "receptor" => errors[e].id = pairs[NthFailed(e)].p1_id
         /\ errors[e].role = "ligand" => errors[e].id = pairs[NthFailed(e)].p2_id

(***************************************************************************)
(* Properties of the metrics functions (EngineSpec).                       *)
(***************************************************************************)
Called == engine # ""

Returned == Called /\ output # NoFeatures

\* The value of n / sqrt(d) is 0, and is 1.
IsZero(x) == x.d # 0 /\ x.n = 0

IsOne(x) == x.n > 0 /\ x.n * x.n = x.d

AllZero(m) ==
  /\ IsZero(m.pearson_corr)
  /\ IsZero(m.cosine_sim)
  /\ m.jaccard_index.num = 0
  /\ m.l2_norm_diff.sq = 0
  /\ m.overlap_count = 0

\* C11: a metrics function called on two vectors of length zero returns the
\* record with every metric 0; it does not return the absent value.
C11_EmptyVectorsGiveZeroRecord ==
  (Called /\ Len(input1) = 0 /\ Len(input2) = 0)
    => (output # NoFeatures /\ AllZero(output))

\* C12: on the identical vectors [1, 2, 3, 4] and [1, 2, 3, 4] a metrics
\* function returns pearson_corr 1, cosine_sim 1, jaccard_index 1,
\* l2_norm_diff 0, and overlap_count 2 (median thresholding).
C12_IdenticalRamp ==
  (Called /\ input1 = <<1, 2, 3, 4>> /\ input2 = <<1, 2, 3, 4>>)
    => /\ output # NoFeatures
       /\ IsOne(output.pearson_corr)
       /\ IsOne(output.cosine_sim)
       /\ output.jaccard_index.num = output.jaccard_index.den
       /\ output.l2_norm_diff.sq = 0
       /\ output.overlap_count = 2


\* Every value of the vector is the same.
ZeroVariance(vec) == \A j, k \in 1..Len(vec) : vec[j] = vec[k]

\* C17: on two vectors of equal length of which one has zero variance a
\* metrics function returns pearson_corr 0; no metric it returns is NaN.
C17_ZeroVarianceGivesZero ==
  /\ (Called /\ Len(input1) = Len(input2) /\ Len(input1) > 0
        /\ (ZeroVariance(input1) \/ ZeroVariance(input2)))
       => (output # NoFeatures /\ IsZero(output.pearson_corr))
  /\ Returned => (output.pearson_corr.d # 0 /\ output.cosine_sim.d # 0)

\* The vector's own threshold: the element of rank floor(length / 2), counted
\* from 0, in ascending order.
Threshold(vec) ==
  CHOOSE t \in Range(vec) :
    /\ Cardinality({k \in 1..Len(vec) : vec[k] < t}) <= Len(vec) \div 2
    /\ Cardinality({k \in 1..Len(vec) : vec[k] <= t}) > Len(vec) \div 2

\* The positions whose value is strictly above the vector's own threshold.
Active(vec) == {k \in 1..Len(vec) : vec[k] > Threshold(vec)}

\* C18: for two vectors of equal length overlap_count is the number of
\* positions active in both, and jaccard_index is that number over the
\* number of positions active in either, or 0 when no position is active.
C18_OverlapAndJaccard ==
  (Returned /\ Len(input1) = Len(input2) /\ Len(input1) > 0)
    => LET both   == Cardinality(Active(input1) \cap Active(input2))
           either == Cardinality(Active(input1) \cup Active(input2))
       IN  /\ output.overlap_count = both
           /\ output.jaccard_index.den > 0
           /\ IF either = 0 THEN output.jaccard_index.num = 0
              ELSE output.jaccard_index.num * either
                     = both * output.jaccard_index.den

C18_Witness ==
  /\ engine = "computeCorrelationMetrics"
  /\ Len(input1) = Len(input2)
  /\ output.overlap_count = 1
  /\ output.jaccard_index = [num |-> 1, den |-> 3]

\* The k positions of the largest values, equal values taken in ascending
\* order of position; every position when the vector has at most k values.
TopK(vec, k) ==
  CHOOSE S \in SUBSET (1..Len(vec)) :
    /\ Cardinality(S) = Min(k, Len(vec))
    /\ \A a \in S : \A b \in (1..Len(vec)) \ S :
         vec[a] > vec[b] \/ (vec[a] = vec[b] /\ a < b)

\* C19: shared_top10_count is the number of positions that are among the ten
\* largest of both vectors, ties going to the smaller position; for vectors
\* of at most ten values it is the length of the vectors.
C19_SharedTopK ==
  (Returned /\ engine = "computeFeatures")
    => /\ output.shared_top10_count
            = Cardinality(TopK(input1, Top10Count) \cap TopK(input2, Top10Count))
       /\ Len(input1) <= Top10Count => output.shared_top10_count = Len(input1)

C19_Witness ==
  /\ engine = "computeFeatures"
  /\ input1 = <<5, 5, 5, 5, 5, 5, 5, 5, 5, 5, 5, 5>>
  /\ input2 = <<1, 2, 3, 4, 5, 6, 7, 8, 9, 10, 11, 12>>
  /\ output # NoFeatures
  /\ output.shared_top10_count = 8

\* C20: a vector with a value above its own threshold has jaccard_index 1
\* with itself.
C20_SelfJaccardIsOne ==
  (Returned /\ input1 = input2 /\ Len(input1) > 0 /\ Active(input1) # {})
    => /\ output.jaccard_index.num = output.jaccard_index.den
       /\ output.jaccard_index.den > 0

C20_Witness ==
  /\ Returned
  /\ input1 = input2
  /\ Len(input1) > 0
  /\ Active(input1) # {}
  /\ output.jaccard_index.num > 0

(***************************************************************************)
(* Properties of the grouping routes (AggregatorSpec).                     *)
(***************************************************************************)
\* The route answered with a grouped structure.
Grouped == handler.shape = "groups"

ByCellType == handler.route = "all-cell-expression"

\* The members of the grouped structure: primary key and entries.
Groups == IF ByCellType THEN grouped ELSE grouped.tissueData

\* The field of an entry that holds its raw secondary key.
SecondaryField == IF ByCellType THEN "tissue" ELSE "cellType"

\* Every entry the route returned, grouped or as a list.
ReturnedEntries ==
  IF Grouped THEN UNION {Range(Groups[k].value) : k \in 1..Len(Groups)}
  ELSE IF handler.shape = "list" THEN Range(grouped)
  ELSE {}

\* C13: no entry a grouping route returns has both intensities 0, whichever
\* the route and its mode.
C13_NoEntryWithBothZero ==
  \A entry \in ReturnedEntries :
    ~(entry.gene1_expression = 0 /\ entry.gene2_expression = 0)

\* C14: the primary keys of a grouped structure are in lexicographic order
\* and the entries of every group in lexicographic order of their raw
\* secondary key, whatever the order of the stored records.
C14_KeysInLexicographicOrder ==
  Grouped =>
    /\ \A j, k \in 1..Len(Groups) :
         j < k => KeyRank(Groups[j].key) < KeyRank(Groups[k].key)
    /\ \A g \in 1..Len(Groups) :
         \A j, k \in 1..Len(Groups[g].value) :
           j < k => KeyRank(Groups[g].value[j][SecondaryField])
                      < KeyRank(Groups[g].value[k][SecondaryField])

RECURSIVE Concat(_)
Concat(seqs) ==
  IF Len(seqs) = 0 THEN <<>>
  ELSE Concat(SubSeq(seqs, 1, Len(seqs) - 1)) \o seqs[Len(seqs)]

\* The two records of one entry: one per gene, under the name the entry
\* gives the gene.
EntryRecords(entry) ==
  << [g |-> entry.gene1_name, gn |-> entry.gene1_name, t |-> entry.tissue,
      ct |-> entry.cellType, n |-> entry.gene1_expression],
     [g |-> entry.gene2_name, gn |-> entry.gene2_name, t |-> entry.tissue,
      ct |-> entry.cellType, n |-> entry.gene2_expression] >>

\* The grouped structure as a flat list of records, group by group.
Flatten(groups) ==
  Concat([g \in 1..Len(groups) |->
            Concat([k \in 1..Len(groups[g].value) |->
                      EntryRecords(groups[g].value[k])])])

\* The same route's grouping of the flattened records, for the same genes.
Regrouped ==
  LET expressionData == Find(Flatten(Groups), gene1, gene2, "t", NoParam)
  IN  IF ByCellType THEN cellGroupedData(expressionData, gene1, gene2)
      ELSE tissueGroupedData(expressionData, gene1, gene2)

\* C15: grouping the flattened output of a grouping route again gives the
\* same primary keys with the same entries and intensities, also when the
\* store holds several records of one gene for one tissue and cell type.
C15_GroupingIsIdempotent ==
  Grouped => Regrouped = Groups

\* Two surds, and two ratios, have the same value.
SameSurd(x, y) == (IsZero(x) /\ IsZero(y)) \/ x = y

SameRatio(x, y) == x.num * y.den = y.num * x.den

\* C27: for two vectors of one length of non-negative intensities of which
\* one sums to 0, computeCorrelationMetrics returns the metrics the general
\* computation gives for them.
C27_EarlyReturnAgrees ==
  (engine = "computeCorrelationMetrics" /\ Len(input1) = Len(input2)
     /\ Len(input1) > 0 /\ (Sum(input1) = 0 \/ Sum(input2) = 0))
    => LET general == GeneralMetrics(input1, input2)
       IN  /\ SameSurd(output.pearson_corr, general.pearson_corr)
           /\ SameSurd(output.cosine_sim, general.cosine_sim)
           /\ SameRatio(output.jaccard_index, general.jaccard_index)
           /\ output.l2_norm_diff = general.l2_norm_diff
           /\ output.overlap_count = general.overlap_count

C27_Witness ==
  /\ engine = "computeCorrelationMetrics"
  /\ Len(input1) = Len(input2)
  /\ Len(input1) > 1
  /\ Sum(input1) = 0
  /\ Sum(input2) > 0
  /\ Binary(input2) # {}
  /\ output.l2_norm_diff.sq > 0
(***************************************************************************)
(* Properties of the search form (ClientSpec, ClientFairSpec).             *)
(***************************************************************************)
InFlight == { k \in DOMAIN eventSources : eventSources[k].readyState = "open" }

\* C28: whatever the server sends (progress, results, an error message, the
\* end of the response without a last message), every EventSource the form
\* opens is in the end closed with loading = false, and at no time are two
\* EventSources of the form open.
C28_RequestsEndOneAtATime ==
  /\ [](Cardinality(InFlight) <= 1)
  /\ \A k \in 1..(MaxRequests + 1) :
       [](k \in InFlight
            => <>(k \notin InFlight /\ ~loading))

\* A second request has ended after an error message that the handler has no
\* branch for.
C28_Witness ==
  /\ Len(eventSources) >= 2
  /\ eventSources[2].readyState = "closed"
  /\ eventSources[2].server = "terminal"
  /\ eventSources[2].page = 2
  /\ ~loading
  /\ mounted

\* C29: once the form is unmounted, the EventSource of the request that was
\* in flight is closed and no handler of the form runs.
C29_UnmountClosesRequest ==
  ~mounted => (InFlight = {} /\ ~afterUnmount)
(***************************************************************************)
(* Properties of the import script (ImportSpec).                           *)
(***************************************************************************)
Copies(line) == Cardinality({ k \in DOMAIN imported : imported[k] = line })

\* C30: no line of the file is stored twice, and when the script is done
\* totalInserted is the number of records in the collection, whatever the
\* inserts did.
C30_StoredOnceAndCounted ==
  /\ \A line \in DOMAIN file : Copies(line) <= 1
  /\ step = "done" => totalInserted = Len(imported)
====
